---------------------------- MODULE Spec2Model ----------------------------
(***************************************************************************)
(* Chart-analysis and compatibility-scoring engine of KPMODIFIED1.py.      *)
(*                                                                         *)
(* The engine is a set of pure functions.  Each one is an operator that    *)
(* computes what the Python computes; a call is a state machine step:      *)
(* Init draws the arguments (args), an action applies the function and     *)
(* stores what it returns (ret); the loops of calculate_vimsottari_dasha   *)
(* run one iteration per step, with the locals in loc.                     *)
(*                                                                         *)
(* Numbers.  A longitude is an integer number of arc-minutes (1 degree =   *)
(* 60), so the nakshatra span 13 + 20/60 degrees is 800 and a sign is      *)
(* 1800.  A Julian day is an integer number of ticks, TicksPerDay to the   *)
(* day, chosen so that every quotient of the dasha arithmetic is exact.    *)
(* Python's floats are modelled by these exact rationals: rounding of the  *)
(* last binary digit is not modelled.  Scores are kept in half points      *)
(* (the Tara koota adds 1.5).                                              *)
(***************************************************************************)
EXTENDS Integers, Sequences, FiniteSets, TLC

VARIABLES fn,    \* the function being called
          pc,    \* position inside the call: "call", a loop label, or "done"
          args,  \* the arguments of the call
          loc,   \* the locals of the call (the dasha walk)
          ret    \* what the call returned

vars == <<fn, pc, args, loc, ret>>

None == "None"
NoLocals == [none |-> TRUE]

---------------------------------------------------------------------------
(* Units and bounds *)

ArcMinPerDeg == 60
Deg(d) == d * ArcMinPerDeg
FullCircle == Deg(360)
SignSpan == Deg(30)

\* Points per degree of the single-longitude grid.
GridPerDegree == 3
\* L and L + 360k are compared for k in -MaxWrap..MaxWrap, L up to MaxWrap turns away.
MaxWrap == 1

Longitudes == {m * (ArcMinPerDeg \div GridPerDegree) : m \in 0..(360 * GridPerDegree - 1)}
Wraps == (0 - MaxWrap)..MaxWrap

---------------------------------------------------------------------------
(* Python arithmetic *)

\* int(a / b) for b > 0: truncation toward zero
TruncDiv(a, b) == IF a >= 0 THEN a \div b ELSE 0 - ((0 - a) \div b)

\* a % b for b > 0: the result has the sign of b
PyMod(a, b) == a % b

Min(a, b) == IF a < b THEN a ELSE b
Max(a, b) == IF a > b THEN a ELSE b
Abs(a) == IF a < 0 THEN 0 - a ELSE a

---------------------------------------------------------------------------
(* Tables *)

DASHA_PERIODS ==
  [Ketu |-> 7, Venus |-> 20, Sun |-> 6, Moon |-> 10, Mars |-> 7,
   Rahu |-> 18, Jupiter |-> 16, Saturn |-> 19, Mercury |-> 17]

DASHAS_LORDS ==
  <<"Ketu", "Venus", "Sun", "Moon", "Mars", "Rahu", "Jupiter", "Saturn", "Mercury">>

\* NAKSHATRA_LORDS[i] of the source (0-based i): three cycles of the nine lords
NAKSHATRA_LORDS(i) == DASHAS_LORDS[(i % 9) + 1]

NAKSHATRA_NAMES ==
  <<"Ashwini", "Bharani", "Krittika", "Rohini", "Mrigashira", "Ardra",
    "Punarvasu", "Pushya", "Ashlesha", "Magha", "Purva Phalguni", "Uttara Phalguni",
    "Hasta", "Chitra", "Swati", "Vishakha", "Anuradha", "Jyeshtha",
    "Mula", "Purva Ashadha", "Uttara Ashadha", "Shravana", "Dhanishta",
    "Shatabhisha", "Purva Bhadrapada", "Uttara Bhadrapada", "Revati">>

\* SIGN_LORD_MAP.get(i): None for a key outside 0..11
SIGN_LORD_MAP(i) ==
  IF i \in 0..11
  THEN <<"Mars", "Venus", "Mercury", "Moon", "Sun", "Mercury",
         "Venus", "Mars", "Jupiter", "Saturn", "Saturn", "Jupiter">>[i + 1]
  ELSE None

\* Scorpio left out of the own signs of Mars
PLANET_OWN_SIGN_Mars_AriesOnly == {0}

PLANET_OWN_SIGN_Mars == {0, 7}
PLANET_EXALTATION_Mars == 9
PLANET_DEBILITATION_Mars == 3

\* nakshatra_span = 13 + 20 / 60 degrees
NAKSHATRA_SPAN == Deg(13) + 20
TOTAL_DASHAS_YEARS == 120

\* index of a lord in NAKSHATRA_LORDS[:9] (0-based)
LordIndex(lord) == CHOOSE i \in 0..8 : DASHAS_LORDS[i + 1] = lord

---------------------------------------------------------------------------
(* Position resolver *)

Signs ==
  <<"Aries", "Taurus", "Gemini", "Cancer", "Leo", "Virgo", "Libra", "Scorpio",
    "Sagittarius", "Capricorn", "Aquarius", "Pisces">>

\* sign_index = int(lon / 30); signs[sign_index % 12]
get_sign_name(lon) == Signs[PyMod(TruncDiv(lon, SignSpan), 12) + 1]

\* the pada without the "+ 1"
get_nakshatra_and_pada_NoPlusOne(longitude) ==
  LET lon == PyMod(longitude, FullCircle)
      nak_index == PyMod(TruncDiv(lon, NAKSHATRA_SPAN), 27)
      offset == lon - nak_index * NAKSHATRA_SPAN
  IN  [nak_name |-> NAKSHATRA_NAMES[nak_index + 1],
       pada |-> TruncDiv(offset * 4, NAKSHATRA_SPAN)]

\* pada = int(offset / (nakshatra_span / 4)) + 1
get_nakshatra_and_pada(longitude) ==
  LET lon == PyMod(longitude, FullCircle)
      nak_index == PyMod(TruncDiv(lon, NAKSHATRA_SPAN), 27)
      offset == lon - nak_index * NAKSHATRA_SPAN
  IN  [nak_name |-> NAKSHATRA_NAMES[nak_index + 1],
       pada |-> TruncDiv(offset * 4, NAKSHATRA_SPAN) + 1]

\* the loop walking the cycle from the lord after the star-lord
RECURSIVE SubLordWalk_FromNextLord(_, _, _, _)
SubLordWalk_FromNextLord(star_lord_index, relative_deg, i, cum) ==
  IF i >= 9 THEN "N/A"
  ELSE LET lord == NAKSHATRA_LORDS((star_lord_index + i + 1) % 9)
           current == cum + DASHA_PERIODS[lord]
       IN  IF relative_deg * TOTAL_DASHAS_YEARS < current * NAKSHATRA_SPAN
           THEN lord
           ELSE SubLordWalk_FromNextLord(star_lord_index, relative_deg, i + 1, current)

\* The for loop of get_star_sub_lord from iteration i with running total cum:
\* cumulative_time_in_nakshatra < current_cumulative_time, where
\* cumulative_time_in_nakshatra = relative_deg / nakshatra_span * 120.
RECURSIVE SubLordWalk(_, _, _, _)
SubLordWalk(star_lord_index, relative_deg, i, cum) ==
  IF i >= 9 THEN "N/A"
  ELSE LET lord == NAKSHATRA_LORDS((star_lord_index + i) % 9)
           current == cum + DASHA_PERIODS[lord]
       IN  IF relative_deg * TOTAL_DASHAS_YEARS < current * NAKSHATRA_SPAN
           THEN lord
           ELSE SubLordWalk(star_lord_index, relative_deg, i + 1, current)

\* the walk of the sub-lords started at Ketu, whatever the star-lord
get_star_sub_lord_WalkFromKetu(longitude) ==
  LET lon == PyMod(longitude, FullCircle)
      nakshatra_index == PyMod(TruncDiv(lon, NAKSHATRA_SPAN), 27)
      star_lord == NAKSHATRA_LORDS(nakshatra_index)
      relative_deg == lon - nakshatra_index * NAKSHATRA_SPAN
  IN  [star_lord |-> star_lord,
       sub_lord |-> SubLordWalk(0, relative_deg, 0, 0)]

get_star_sub_lord(longitude) ==
  LET lon == PyMod(longitude, FullCircle)
      nakshatra_index == PyMod(TruncDiv(lon, NAKSHATRA_SPAN), 27)
      star_lord == NAKSHATRA_LORDS(nakshatra_index)
      relative_deg == lon - nakshatra_index * NAKSHATRA_SPAN
  IN  [star_lord |-> star_lord,
       sub_lord |-> SubLordWalk(LordIndex(star_lord), relative_deg, 0, 0)]

\* longitude_to_dms: degrees, minutes, seconds of lon % 360
longitude_to_dms(lon) ==
  LET l == PyMod(lon, FullCircle)
  IN  <<l \div ArcMinPerDeg, l % ArcMinPerDeg, 0>>

get_graha_position_details(planet_name, longitude) ==
  LET lords == get_star_sub_lord(longitude)
      rasi_index == PyMod(TruncDiv(longitude, SignSpan), 12)
      np == get_nakshatra_and_pada(longitude)
  IN  [planet |-> planet_name,
       rasi_lord |-> SIGN_LORD_MAP(rasi_index),
       star_lord |-> lords.star_lord,
       sub_lord |-> lords.sub_lord,
       dms |-> longitude_to_dms(longitude),
       nak_name |-> np.nak_name,
       pada |-> np.pada]

PositionInit ==
  /\ fn = "position"
  /\ pc = "call"
  /\ args \in [lon : Longitudes]
  /\ loc = NoLocals
  /\ ret = None

\* get_sign_name at a longitude j turns away from [0, 360) and at that
\* longitude shifted by k more turns
Call_get_sign_name ==
  /\ fn = "position" /\ pc = "call"
  /\ \E j \in Wraps, k \in Wraps :
       LET L == args.lon + j * FullCircle
       IN  /\ ret' = [sign |-> get_sign_name(L),
                      sign_wrapped |-> get_sign_name(L + k * FullCircle)]
           /\ args' = [lon |-> L, k |-> k]
  /\ pc' = "sign_done"
  /\ UNCHANGED <<fn, loc>>

Call_get_graha_position_details ==
  /\ fn = "position" /\ pc = "call"
  /\ ret' = get_graha_position_details("Moon", args.lon)
  /\ pc' = "position_done"
  /\ UNCHANGED <<fn, args, loc>>

PositionNext ==
  \/ Call_get_sign_name
  \/ Call_get_graha_position_details

SpecPosition == PositionInit /\ [][PositionNext]_vars

---------------------------------------------------------------------------
(* Claims on the position resolver *)

\* C6: the sign computed for a longitude L equals the sign computed for
\* L + 360k, for every integer k and every L, negative ones included.
C6_SignWrapInvariance ==
  pc = "sign_done" => ret.sign = ret.sign_wrapped

\* C8 as stated: at longitude 10 degrees the position is Ashwini pada 1 with
\* star-lord Ketu and sub-lord Ketu.
C8_TenDegrees_AsStated ==
  (pc = "position_done" /\ args.lon = Deg(10)) =>
    /\ ret.nak_name = "Ashwini" /\ ret.pada = 1
    /\ ret.star_lord = "Ketu" /\ ret.sub_lord = "Ketu"

\* C8 amended: at longitude 10 degrees the position is Ashwini pada 4 with
\* star-lord Ketu and sub-lord Saturn; Ashwini pada 1 with star-lord and
\* sub-lord Ketu is the position of longitude 0.
C8_TenDegrees ==
  /\ (pc = "position_done" /\ args.lon = Deg(10)) =>
       /\ ret.nak_name = "Ashwini" /\ ret.pada = 4
       /\ ret.star_lord = "Ketu" /\ ret.sub_lord = "Saturn"
  /\ (pc = "position_done" /\ args.lon = 0) =>
       /\ ret.nak_name = "Ashwini" /\ ret.pada = 1
       /\ ret.star_lord = "Ketu" /\ ret.sub_lord = "Ketu"

C8_Witness ==
  pc = "position_done" /\ args.lon = Deg(10) /\ ret.pada = 4

---------------------------------------------------------------------------
(* House mapper *)

\* Number of grid points the 12 cusps of a generated cusp set are drawn from.
MaxCuspPoints == 13

CuspGrid == {Deg(20) * m : m \in 0..(MaxCuspPoints - 1)}
HouseLons == {Deg(5) * m : m \in 0..71}

\* the elements of a set of numbers in increasing order
SortedSeq(S) ==
  [n \in 1..Cardinality(S) |-> CHOOSE x \in S : Cardinality({y \in S : y < x}) = n - 1]

\* 12 distinct grid points in counter-clockwise order, starting at any of them
GeneratedCusps ==
  {[i \in 1..12 |-> SortedSeq(S)[((i - 1 + r) % 12) + 1]] :
     S \in {T \in SUBSET CuspGrid : Cardinality(T) = 12}, r \in 0..11}

\* cusps = [0, 30, 60, ..., 330]
EqualCusps == [i \in 1..12 |-> Deg(30) * (i - 1)]

\* the loop of find_house_index with "start < longitude" for "start <= longitude"
RECURSIVE HouseLoop_OpenStart(_, _, _)
HouseLoop_OpenStart(longitude, cusps, i) ==
  IF i >= 12 THEN 0
  ELSE LET start == cusps[i + 1]
           end == cusps[((i + 1) % 12) + 1]
       IN  IF start < end
           THEN IF start < longitude /\ longitude < end
                THEN i + 1
                ELSE HouseLoop_OpenStart(longitude, cusps, i + 1)
           ELSE IF start < longitude \/ longitude < end
                THEN i + 1
                ELSE HouseLoop_OpenStart(longitude, cusps, i + 1)

\* the loop without the branch for an interval that wraps past 360
RECURSIVE HouseLoop_NoWrapBranch(_, _, _)
HouseLoop_NoWrapBranch(longitude, cusps, i) ==
  IF i >= 12 THEN 0
  ELSE LET start == cusps[i + 1]
           end == cusps[((i + 1) % 12) + 1]
       IN  IF start <= longitude /\ longitude < end
           THEN i + 1
           ELSE HouseLoop_NoWrapBranch(longitude, cusps, i + 1)

\* the for loop of find_house_index from index i (cusps is 1-based here)
RECURSIVE HouseLoop(_, _, _)
HouseLoop(longitude, cusps, i) ==
  IF i >= 12 THEN 0
  ELSE LET start == cusps[i + 1]
           end == cusps[((i + 1) % 12) + 1]
       IN  IF start < end
           THEN IF start <= longitude /\ longitude < end
                THEN i + 1
                ELSE HouseLoop(longitude, cusps, i + 1)
           ELSE IF start <= longitude \/ longitude < end
                THEN i + 1
                ELSE HouseLoop(longitude, cusps, i + 1)

find_house_index_OpenStart(longitude, cusps) == HouseLoop_OpenStart(longitude, cusps, 0)

find_house_index(longitude, cusps) == HouseLoop(longitude, cusps, 0)

\* house = (planet_sign - lagna_sign + 12) % 12, the "+ 1" left out
find_house_from_lagna_NoPlusOne(planet_lon, lagna_lon) ==
  PyMod(TruncDiv(planet_lon, SignSpan) - TruncDiv(lagna_lon, SignSpan) + 12, 12)

\* whole-sign house from the Lagna
find_house_from_lagna(planet_lon, lagna_lon) ==
  LET lagna_sign == TruncDiv(lagna_lon, SignSpan)
      planet_sign == TruncDiv(planet_lon, SignSpan)
  IN  PyMod(planet_sign - lagna_sign + 12, 12) + 1

HouseInit ==
  /\ fn = "house"
  /\ pc = "call"
  /\ \/ args \in [lon : HouseLons, cusps : GeneratedCusps]
     \/ args \in [lon : Longitudes, cusps : {EqualCusps}]
  /\ loc = NoLocals
  /\ ret = None

\* mars_house = find_house_index(mars_lon, cusps), and so on for every body
Call_find_house_index ==
  /\ fn = "house" /\ pc = "call"
  /\ ret' = [house |-> find_house_index(args.lon, args.cusps)]
  /\ pc' = "house_done"
  /\ UNCHANGED <<fn, args, loc>>

\* the same longitude under the whole-sign convention, the Lagna being cusp 1
Call_find_house_from_lagna ==
  /\ fn = "house" /\ pc = "house_done"
  /\ ret' = [house |-> ret.house,
             lagna_house |-> find_house_from_lagna(args.lon, args.cusps[1])]
  /\ pc' = "lagna_done"
  /\ UNCHANGED <<fn, args, loc>>

HouseNext ==
  \/ Call_find_house_index
  \/ Call_find_house_from_lagna

SpecHouse == HouseInit /\ [][HouseNext]_vars

---------------------------------------------------------------------------
(* Claims on the house mapper *)

\* cyclically increasing with exactly one wrap past 360
WellFormedCusps(cusps) ==
  Cardinality({i \in 1..12 : cusps[i] >= cusps[(i % 12) + 1]}) = 1

\* house i as the closed-open circular interval [cusp i, cusp i+1)
InHouseInterval(i, lon, cusps) ==
  LET a == cusps[i]
      b == cusps[(i % 12) + 1]
  IN  IF a < b THEN a <= lon /\ lon < b ELSE lon >= a \/ lon < b

\* C7: for a well-formed cusp set and a longitude in [0,360) exactly one
\* house interval contains the longitude, find_house_index returns that
\* house, and a longitude equal to cusp i is assigned to house i.
C7_ExactlyOneHouse ==
  (pc = "house_done" /\ WellFormedCusps(args.cusps)) =>
    /\ Cardinality({i \in 1..12 : InHouseInterval(i, args.lon, args.cusps)}) = 1
    /\ ret.house \in 1..12
    /\ InHouseInterval(ret.house, args.lon, args.cusps)
    /\ \A i \in 1..12 : args.lon = args.cusps[i] => ret.house = i

\* a longitude on the cusp of a house that is not the first, in a cusp set
\* whose wrap past 360 lies inside the list
C7_Witness ==
  /\ pc = "house_done" /\ WellFormedCusps(args.cusps)
  /\ args.cusps[3] > args.cusps[4]
  /\ args.lon = args.cusps[5] /\ ret.house = 5

\* C10: with the cusps [0,30,...,330] and the Ascendant at 0,
\* find_house_index and find_house_from_lagna agree on every longitude of
\* [0,360), and both give 2 at 45 degrees.
C10_EqualHousesAgree ==
  (pc = "lagna_done" /\ args.cusps = EqualCusps) =>
    /\ ret.house = ret.lagna_house
    /\ args.lon = Deg(45) => ret.house = 2

C10_Witness ==
  /\ pc = "lagna_done" /\ args.cusps = EqualCusps
  /\ args.lon = Deg(45) /\ ret.house = 2 /\ ret.lagna_house = 2

---------------------------------------------------------------------------
(* Ashtakoota scorer.  Scores are in half points: HalfPoints(1) is 1 point. *)

\* Points of the Moon-longitude grid in each sign.
MoonPointsPerSign == 9

MoonLons == {m * (SignSpan \div MoonPointsPerSign) : m \in 0..(12 * MoonPointsPerSign - 1)}

HalfPoints(points) == 2 * points

get_varna(rasi_index) ==
  IF rasi_index \in {2, 5, 6, 9} THEN 0
  ELSE IF rasi_index \in {0, 4, 7, 10} THEN 1
  ELSE 2

VarnaKoota(r1, r2) == IF get_varna(r1) <= get_varna(r2) THEN 1 ELSE 0

get_vashya(rasi_index) ==
  IF rasi_index \in {0, 1} THEN 0
  ELSE IF rasi_index \in {2, 5, 6} THEN 1
  ELSE IF rasi_index = 3 THEN 2
  ELSE IF rasi_index = 4 THEN 3
  ELSE 4

VashyaKoota(r1, r2) ==
  LET v1 == get_vashya(r1)
      v2 == get_vashya(r2)
  IN  IF v1 = v2 THEN 2
      ELSE IF (v1 = 0 /\ v2 = 3) \/ (v1 = 3 /\ v2 = 0) THEN 0
      ELSE 1

\* t_score with the excluded counts [3, 5, 8] for [3, 5, 7]
TaraKoota_ExcludesEighth(n1, n2) ==
  LET dist == (n2 - n1 + 27) % 27
      dist2 == (n1 - n2 + 27) % 27
  IN  (IF (dist + 1) % 9 \notin {3, 5, 8} THEN 3 ELSE 0)
      + (IF (dist2 + 1) % 9 \notin {3, 5, 8} THEN 3 ELSE 0)

\* t_score, in half points: 1.5 for each direction outside {3, 5, 7}
TaraKoota(n1, n2) ==
  LET dist == (n2 - n1 + 27) % 27
      dist2 == (n1 - n2 + 27) % 27
  IN  (IF (dist + 1) % 9 \notin {3, 5, 7} THEN 3 ELSE 0)
      + (IF (dist2 + 1) % 9 \notin {3, 5, 7} THEN 3 ELSE 0)

\* yoni_map.get(nak_index, 0)
get_yoni(nak_index) ==
  IF nak_index \in 0..13 THEN nak_index + 1
  ELSE IF nak_index \in 14..26 THEN nak_index - 13
  ELSE 0

YoniKoota(n1, n2) ==
  LET y1 == get_yoni(n1)
      y2 == get_yoni(n2)
  IN  IF y1 = y2 THEN 4
      ELSE IF (y1 + y2) % 2 = 0 THEN 3
      ELSE 0

friendly_pairs ==
  {<<"Sun", "Moon">>, <<"Sun", "Mars">>, <<"Sun", "Jupiter">>, <<"Moon", "Mars">>,
   <<"Moon", "Jupiter">>, <<"Mars", "Jupiter">>, <<"Mars", "Sun">>,
   <<"Mercury", "Venus">>, <<"Mercury", "Saturn">>, <<"Jupiter", "Sun">>,
   <<"Jupiter", "Moon">>, <<"Jupiter", "Mars">>, <<"Jupiter", "Saturn">>,
   <<"Venus", "Mercury">>, <<"Venus", "Saturn">>, <<"Saturn", "Mercury">>,
   <<"Saturn", "Jupiter">>, <<"Saturn", "Venus">>}

get_graha_maitri(lord1, lord2) ==
  IF lord1 = lord2 THEN 5
  ELSE IF <<lord1, lord2>> \in friendly_pairs /\ <<lord2, lord1>> \in friendly_pairs THEN 5
  ELSE IF <<lord1, lord2>> \in friendly_pairs \/ <<lord2, lord1>> \in friendly_pairs THEN 4
  ELSE IF lord1 \in {"Sun", "Moon"} /\ lord2 \in {"Saturn", "Venus"} THEN 0
  ELSE 1

\* rasi_lord_map of calculate_ashtakoota is the same table as SIGN_LORD_MAP
GrahaMaitriKoota(r1, r2) == get_graha_maitri(SIGN_LORD_MAP(r1), SIGN_LORD_MAP(r2))

get_gana(nak_index) ==
  IF nak_index \in {0, 4, 6, 7, 12, 14, 16, 21, 26} THEN 0
  ELSE IF nak_index \in {1, 3, 5, 10, 11, 19, 20, 24, 25} THEN 1
  ELSE 2

GanaKoota(n1, n2) ==
  LET g1 == get_gana(n1)
      g2 == get_gana(n2)
  IN  IF g1 = g2 THEN 6
      ELSE IF (g1 = 0 /\ g2 = 1) \/ (g1 = 1 /\ g2 = 0) THEN 5
      ELSE IF (g1 = 1 /\ g2 = 2) \/ (g1 = 2 /\ g2 = 1) THEN 1
      ELSE 0

BhakootKoota(r1, r2) ==
  IF ((r2 - r1 + 12) % 12) \notin {2, 10, 5, 9, 6, 8} THEN 7 ELSE 0

\* Nadi with the comparison inverted: 8 points when the groups are equal
NadiKoota_SameGroupScores(n1, n2) == IF (n1 % 3) = (n2 % 3) THEN 8 ELSE 0

\* 8 points when the two nakshatra groups differ
NadiKoota(n1, n2) == IF (n1 % 3) # (n2 % 3) THEN 8 ELSE 0

\* round(x) of a non-negative x given in half points: ties go to the even integer
PyRound(half_points) ==
  LET q == half_points \div 2
  IN  IF half_points % 2 = 0 THEN q
      ELSE IF q % 2 = 0 THEN q
      ELSE q + 1

\* total_score after the eight kootas, in half points
AshtakootaTotal(moon_lon_c1, moon_lon_c2) ==
  LET nak_index_c1 == PyMod(TruncDiv(PyMod(moon_lon_c1, FullCircle), NAKSHATRA_SPAN), 27)
      nak_index_c2 == PyMod(TruncDiv(PyMod(moon_lon_c2, FullCircle), NAKSHATRA_SPAN), 27)
      moon_rasi_index_c1 == PyMod(TruncDiv(moon_lon_c1, SignSpan), 12)
      moon_rasi_index_c2 == PyMod(TruncDiv(moon_lon_c2, SignSpan), 12)
  IN  HalfPoints(VarnaKoota(moon_rasi_index_c1, moon_rasi_index_c2))
      + HalfPoints(VashyaKoota(moon_rasi_index_c1, moon_rasi_index_c2))
      + TaraKoota(nak_index_c1, nak_index_c2)
      + HalfPoints(YoniKoota(nak_index_c1, nak_index_c2))
      + HalfPoints(GrahaMaitriKoota(moon_rasi_index_c1, moon_rasi_index_c2))
      + HalfPoints(GanaKoota(nak_index_c1, nak_index_c2))
      + HalfPoints(BhakootKoota(moon_rasi_index_c1, moon_rasi_index_c2))
      + HalfPoints(NadiKoota(nak_index_c1, nak_index_c2))

\* "return total_score": neither rounded nor clamped
calculate_ashtakoota_NoRound(moon_lon_c1, moon_lon_c2) ==
  AshtakootaTotal(moon_lon_c1, moon_lon_c2)

\* "total_score = 7" for "total_score += 7" at the Bhakoot koota: what was
\* summed before it is lost
calculate_ashtakoota_BhakootAssigns(moon_lon_c1, moon_lon_c2) ==
  LET nak_index_c1 == PyMod(TruncDiv(PyMod(moon_lon_c1, FullCircle), NAKSHATRA_SPAN), 27)
      nak_index_c2 == PyMod(TruncDiv(PyMod(moon_lon_c2, FullCircle), NAKSHATRA_SPAN), 27)
      moon_rasi_index_c1 == PyMod(TruncDiv(moon_lon_c1, SignSpan), 12)
      moon_rasi_index_c2 == PyMod(TruncDiv(moon_lon_c2, SignSpan), 12)
      bhakoot == BhakootKoota(moon_rasi_index_c1, moon_rasi_index_c2)
      total == IF bhakoot = 0
               THEN AshtakootaTotal(moon_lon_c1, moon_lon_c2)
               ELSE HalfPoints(bhakoot) + HalfPoints(NadiKoota(nak_index_c1, nak_index_c2))
  IN  HalfPoints(Min(Max(PyRound(total), 0), 36))

\* return min(max(round(total_score), 0), 36); the value is given in half
\* points, so an integer score is an even number
calculate_ashtakoota(moon_lon_c1, moon_lon_c2) ==
  HalfPoints(Min(Max(PyRound(AshtakootaTotal(moon_lon_c1, moon_lon_c2)), 0), 36))

AshtakootaInit ==
  /\ fn = "calculate_ashtakoota"
  /\ pc = "call"
  /\ args \in [moon_lon_c1 : MoonLons, moon_lon_c2 : MoonLons]
  /\ loc = NoLocals
  /\ ret = None

Call_calculate_ashtakoota ==
  /\ fn = "calculate_ashtakoota" /\ pc = "call"
  /\ LET nak_index_c1 == PyMod(TruncDiv(PyMod(args.moon_lon_c1, FullCircle), NAKSHATRA_SPAN), 27)
         nak_index_c2 == PyMod(TruncDiv(PyMod(args.moon_lon_c2, FullCircle), NAKSHATRA_SPAN), 27)
     IN  loc' = [nak_index_c1 |-> nak_index_c1,
                 nak_index_c2 |-> nak_index_c2,
                 t_score_half_points |-> TaraKoota(nak_index_c1, nak_index_c2)]
  /\ ret' = [score_half_points |-> calculate_ashtakoota(args.moon_lon_c1, args.moon_lon_c2)]
  /\ pc' = "done"
  /\ UNCHANGED <<fn, args>>

AshtakootaNext == Call_calculate_ashtakoota

SpecAshtakoota == AshtakootaInit /\ [][AshtakootaNext]_vars

---------------------------------------------------------------------------
(* Claims on the Ashtakoota scorer *)

AshtakootaDone == fn = "calculate_ashtakoota" /\ pc = "done"

SameMoon == args.moon_lon_c1 = args.moon_lon_c2

\* C3: calculate_ashtakoota returns an integer in [0,36] for every pair of
\* Moon longitudes.
C3_IntegerInRange ==
  AshtakootaDone => \E n \in 0..36 : ret.score_half_points = HalfPoints(n)

\* a pair whose total before rounding is not an integer (Tara adds 1.5 once)
C3_Witness ==
  /\ AshtakootaDone
  /\ AshtakootaTotal(args.moon_lon_c1, args.moon_lon_c2) % 2 = 1
  /\ ret.score_half_points \in {HalfPoints(n) : n \in 0..36}

\* C4 as stated: the same Moon longitude for both natives gives exactly 36.
C4_SameMoon36_AsStated ==
  (AshtakootaDone /\ SameMoon) => ret.score_half_points = HalfPoints(36)

\* C4 amended: the same Moon longitude for both natives gives exactly 28,
\* every koota at its full weight except Nadi, which scores 0 because the two
\* nakshatra groups are equal.
C4_SameMoon28 ==
  (AshtakootaDone /\ SameMoon) => ret.score_half_points = HalfPoints(28)

C4_Witness ==
  /\ AshtakootaDone /\ SameMoon /\ args.moon_lon_c1 > 0
  /\ ret.score_half_points = HalfPoints(28)

\* C5: with the same Moon longitude for both natives the score is at least
\* the sum of the full Nadi, Gana and Graha Maitri weights, 8 + 6 + 5 = 19.
C5_SameMoonFloor ==
  (AshtakootaDone /\ SameMoon) => ret.score_half_points >= HalfPoints(8 + 6 + 5)

C5_Witness ==
  /\ AshtakootaDone /\ SameMoon /\ args.moon_lon_c1 = Deg(10)
  /\ ret.score_half_points >= HalfPoints(19)

---------------------------------------------------------------------------
(* Harmonic transformer *)

\* PADA_SIZE = 3 + 20/60 degrees
PADA_SIZE == Deg(3) + 20

get_navamsa_longitude(d1_lon) ==
  LET d1_lon_in_sign == PyMod(d1_lon, SignSpan)
      d1_sign_index == TruncDiv(d1_lon, SignSpan)
      pada_index == TruncDiv(d1_lon_in_sign, PADA_SIZE)
      start_sign == IF d1_sign_index \in {0, 3, 6, 9} THEN 0
                    ELSE IF d1_sign_index \in {1, 4, 7, 10} THEN 9
                    ELSE 6
      d9_sign_index == (start_sign + pada_index) % 12
  IN  d9_sign_index * SignSpan + Deg(15)

---------------------------------------------------------------------------
(* Dosha evaluator: cancellation of the Mars dosha.                        *)
(* An optional longitude (dict.get) is <<>> for None and <<lon>> otherwise. *)

Absent == <<>>
Some(lon) == <<lon>>

\* Points of the Mars-longitude grid in each sign.
KujaPointsPerSign == 2

KujaMarsLons == {m * (SignSpan \div KujaPointsPerSign) : m \in 0..(12 * KujaPointsPerSign - 1)}
KujaJupiterLons == {Absent} \cup {Some(Deg(30) * m + Deg(5)) : m \in 0..11}
KujaVenusLons == {Absent} \cup {Some(Deg(d)) : d \in {20, 100, 187, 260, 357}}
KujaMoonLons == {Deg(10), Deg(40), Deg(250)}
KujaSunLons == {Deg(200), Deg(300)}
\* D1 longitudes whose navamsa is a D9 Mars: in Aries, Cancer, Virgo, Capricorn
KujaD9Sources == {Deg(0), Deg(10), Deg(17), Deg(30)}

\* the for loop over benefics.items(), from position i of the dict's order
RECURSIVE BeneficLoop(_, _, _, _)
BeneficLoop(mars_lon, mars_sign_index, benefics, i) ==
  IF i > Len(benefics) THEN Absent
  ELSE LET name == benefics[i][1]
           opt == benefics[i][2]
       IN  IF opt = Absent
           THEN BeneficLoop(mars_lon, mars_sign_index, benefics, i + 1)
           ELSE LET ben_lon == opt[1]
                    ben_sign_index == PyMod(TruncDiv(ben_lon, SignSpan), 12)
                    aspect_7th_sign == (ben_sign_index + 6) % 12
                IN  IF Abs(mars_lon - ben_lon) < Deg(8) \/ Abs(mars_lon - ben_lon) > Deg(352)
                    THEN <<"Cancelled (Conj. " \o name \o " D1)">>
                    ELSE IF mars_sign_index = aspect_7th_sign
                    THEN <<"Cancelled (Aspect " \o name \o " D1)">>
                    ELSE BeneficLoop(mars_lon, mars_sign_index, benefics, i + 1)

check_kuja_cancellation(mars_lon, planets, d9_planets, moon_lon, sun_lon) ==
  LET mars_sign_index == PyMod(TruncDiv(mars_lon, SignSpan), 12)
      moon_sun_dist == Abs(moon_lon - sun_lon)
      benefics == <<<<"Jupiter", planets.Jupiter>>, <<"Venus", planets.Venus>>>>
                  \o (IF moon_sun_dist > Deg(150) /\ moon_sun_dist < Deg(210)
                      THEN <<<<"Moon", Some(moon_lon)>>>>
                      ELSE <<>>)
      by_benefic == BeneficLoop(mars_lon, mars_sign_index, benefics, 1)
      jup == planets.Jupiter
      jup_sign_index == PyMod(TruncDiv(jup[1], SignSpan), 12)
      mars_d9 == d9_planets.Mars
      mars_d9_sign == TruncDiv(mars_d9[1], SignSpan)
      yes(reason) == [cancelled |-> TRUE, reason |-> reason]
  IN  IF mars_sign_index \in PLANET_OWN_SIGN_Mars THEN yes("Cancelled (Own Sign D1)")
      ELSE IF mars_sign_index = PLANET_EXALTATION_Mars THEN yes("Cancelled (Exalted D1)")
      ELSE IF mars_sign_index = PLANET_DEBILITATION_Mars THEN yes("Cancelled (Debilitated D1)")
      ELSE IF mars_sign_index \in {4, 8, 11} THEN yes("Cancelled (Benefic Sign D1)")
      ELSE IF by_benefic # Absent THEN yes(by_benefic[1])
      ELSE IF jup # Absent
              /\ mars_sign_index \in {(jup_sign_index + 4) % 12, (jup_sign_index + 8) % 12}
      THEN yes("Cancelled (Aspect Jupiter D1)")
      ELSE IF mars_d9 # Absent /\ mars_d9_sign \in PLANET_OWN_SIGN_Mars
      THEN yes("Cancelled (Own Sign D9)")
      ELSE IF mars_d9 # Absent /\ mars_d9_sign = PLANET_EXALTATION_Mars
      THEN yes("Cancelled (Exalted D9)")
      ELSE IF mars_d9 # Absent /\ mars_d9_sign = PLANET_DEBILITATION_Mars
      THEN yes("Cancelled (Debilitated D9)")
      ELSE [cancelled |-> FALSE, reason |-> "Afflicted"]

KujaInit ==
  /\ fn = "check_kuja_cancellation"
  /\ pc = "call"
  /\ \E mars \in KujaMarsLons :
       args \in [mars_lon : {mars},
                 planets : [Jupiter : KujaJupiterLons, Venus : KujaVenusLons],
                 d9_planets : [Mars : {Absent, Some(get_navamsa_longitude(mars))}
                                      \cup {Some(get_navamsa_longitude(l)) : l \in KujaD9Sources}],
                 moon_lon : KujaMoonLons,
                 sun_lon : KujaSunLons]
  /\ loc = NoLocals
  /\ ret = None

Call_check_kuja_cancellation ==
  /\ fn = "check_kuja_cancellation" /\ pc = "call"
  /\ ret' = check_kuja_cancellation(args.mars_lon, args.planets, args.d9_planets,
                                    args.moon_lon, args.sun_lon)
  /\ pc' = "done"
  /\ UNCHANGED <<fn, args, loc>>

KujaNext == Call_check_kuja_cancellation

SpecKuja == KujaInit /\ [][KujaNext]_vars

---------------------------------------------------------------------------
(* Claims on the dosha evaluator *)

KujaDone == fn = "check_kuja_cancellation" /\ pc = "done"

\* Mars, at a longitude of [0,360), is in Aries or in Scorpio
MarsInOwnSign ==
  \/ (args.mars_lon >= Deg(0) /\ args.mars_lon < Deg(30))
  \/ (args.mars_lon >= Deg(210) /\ args.mars_lon < Deg(240))

\* C9: whenever Mars is in one of its own signs (Aries or Scorpio),
\* check_kuja_cancellation returns cancelled = True with the own-sign reason,
\* whatever the other bodies and the D9 chart are.
C9_OwnSignCancels ==
  (KujaDone /\ MarsInOwnSign) =>
    ret = [cancelled |-> TRUE, reason |-> "Cancelled (Own Sign D1)"]

\* Mars in Scorpio, with neither Jupiter nor Venus nor a D9 Mars in the charts
C9_Witness ==
  /\ KujaDone /\ MarsInOwnSign /\ args.mars_lon >= Deg(210)
  /\ args.planets = [Jupiter |-> Absent, Venus |-> Absent]
  /\ args.d9_planets.Mars = Absent
  /\ ret.cancelled /\ ret.reason = "Cancelled (Own Sign D1)"

---------------------------------------------------------------------------
(* Dasha timeline calculator.  Julian days are in ticks. *)

\* 9600 ticks to the day: every product and quotient below is an integer
TicksPerDay == 4 * 20 * TOTAL_DASHAS_YEARS
\* DAYS_PER_YEAR = 365.25 days
DAYS_PER_YEAR == (1461 * TicksPerDay) \div 4

\* Number of birth instants tried.
MaxBirths == 1
\* The target instant is the birth instant plus 0..MaxTargetQuarters quarter years.
MaxTargetQuarters == 480

BirthJDs == {b * 1000 * TicksPerDay : b \in 1..MaxBirths}
TargetOffsets == {q * (DAYS_PER_YEAR \div 4) : q \in 0..MaxTargetQuarters}

\* days of a sub-period with the lord's own years in place of the parent's
SubPeriodDays_OwnYearsTwice(parent_lord, lord) ==
  DASHA_PERIODS[lord] * DASHA_PERIODS[lord] * (DAYS_PER_YEAR \div TOTAL_DASHAS_YEARS)

\* a sub-period of no length: the end of the period never moves forward
SubPeriodDays_ZeroSpan(parent_lord, lord) == 0

\* days of a sub-period divided by 100 years in place of the 120 of the cycle
SubPeriodDays_Per100(parent_lord, lord) ==
  DASHA_PERIODS[parent_lord] * DASHA_PERIODS[lord] * (DAYS_PER_YEAR \div 100)

\* ad_days / pd_days:
\* (DASHA_PERIODS[parent] * DASHA_PERIODS[lord] / TOTAL_DASHAS_YEARS) * DAYS_PER_YEAR
SubPeriodDays(parent_lord, lord) ==
  DASHA_PERIODS[parent_lord] * DASHA_PERIODS[lord] * (DAYS_PER_YEAR \div TOTAL_DASHAS_YEARS)

Lord(index) == DASHAS_LORDS[index + 1]

DashaInit ==
  /\ fn = "calculate_vimsottari_dasha"
  /\ pc = "call"
  /\ \E birth \in BirthJDs, off \in TargetOffsets :
       args \in [birth_jd : {birth}, moon_lon : MoonLons, target_jd : {birth + off}]
  /\ loc = NoLocals
  \* the three lords are not yet known
  /\ ret = [md_lord |-> None, ad_lord |-> None, pd_lord |-> None]

\* the straight-line code before the Mahadasha loop
DashaBegin ==
  /\ fn = "calculate_vimsottari_dasha" /\ pc = "call"
  /\ LET moon_lon == PyMod(args.moon_lon, FullCircle)
         nak_index == TruncDiv(moon_lon, NAKSHATRA_SPAN)
         nak_lord_at_birth == NAKSHATRA_LORDS(nak_index % 27)
         offset_deg == moon_lon - nak_index * NAKSHATRA_SPAN
         total_dasha_years == DASHA_PERIODS[nak_lord_at_birth]
         \* fraction_covered * total_dasha_years * DAYS_PER_YEAR
         covered_days == offset_deg * total_dasha_years * (DAYS_PER_YEAR \div NAKSHATRA_SPAN)
         \* (1 - fraction_covered) * total_dasha_years * DAYS_PER_YEAR
         remaining_days == (NAKSHATRA_SPAN - offset_deg) * total_dasha_years
                             * (DAYS_PER_YEAR \div NAKSHATRA_SPAN)
     IN  loc' = [current_lord_index |-> LordIndex(nak_lord_at_birth),
                 current_md_start_jd |-> args.birth_jd - covered_days,
                 current_md_end_jd |-> args.birth_jd + remaining_days]
  /\ pc' = "md_loop"
  /\ UNCHANGED <<fn, args, ret>>

\* one iteration of "while target_jd >= current_md_end_jd"
MahadashaStep ==
  /\ fn = "calculate_vimsottari_dasha" /\ pc = "md_loop"
  /\ args.target_jd >= loc.current_md_end_jd
  /\ LET next == (loc.current_lord_index + 1) % 9
     IN  loc' = [current_lord_index |-> next,
                 current_md_start_jd |-> loc.current_md_end_jd,
                 current_md_end_jd |->
                   loc.current_md_end_jd + DASHA_PERIODS[Lord(next)] * DAYS_PER_YEAR]
  /\ UNCHANGED <<fn, pc, args, ret>>

\* the Mahadasha loop ends; the first Antardasha is set up
AntardashaBegin ==
  /\ fn = "calculate_vimsottari_dasha" /\ pc = "md_loop"
  /\ args.target_jd < loc.current_md_end_jd
  /\ loc' = [current_lord_index |-> loc.current_lord_index,
             current_md_start_jd |-> loc.current_md_start_jd,
             current_md_end_jd |-> loc.current_md_end_jd,
             ad_lord_index |-> loc.current_lord_index,
             current_ad_start_jd |-> loc.current_md_start_jd,
             current_ad_end_jd |->
               loc.current_md_start_jd
               + SubPeriodDays(Lord(loc.current_lord_index), Lord(loc.current_lord_index))]
  /\ pc' = "ad_loop"
  /\ UNCHANGED <<fn, args, ret>>

\* one iteration of "while target_jd >= current_ad_end_jd"
AntardashaStep ==
  /\ fn = "calculate_vimsottari_dasha" /\ pc = "ad_loop"
  /\ args.target_jd >= loc.current_ad_end_jd
  /\ LET next == (loc.ad_lord_index + 1) % 9
     IN  loc' = [loc EXCEPT
                   !.ad_lord_index = next,
                   !.current_ad_start_jd = loc.current_ad_end_jd,
                   !.current_ad_end_jd =
                     loc.current_ad_end_jd
                     + SubPeriodDays(Lord(loc.current_lord_index), Lord(next))]
  /\ UNCHANGED <<fn, pc, args, ret>>

\* the Antardasha loop ends; the first Pratyantardasha is set up
PratyantardashaBegin ==
  /\ fn = "calculate_vimsottari_dasha" /\ pc = "ad_loop"
  /\ args.target_jd < loc.current_ad_end_jd
  /\ loc' = [current_lord_index |-> loc.current_lord_index,
             current_md_start_jd |-> loc.current_md_start_jd,
             current_md_end_jd |-> loc.current_md_end_jd,
             ad_lord_index |-> loc.ad_lord_index,
             current_ad_start_jd |-> loc.current_ad_start_jd,
             current_ad_end_jd |-> loc.current_ad_end_jd,
             pd_lord_index |-> loc.ad_lord_index,
             current_pd_start_jd |-> loc.current_ad_start_jd,
             current_pd_end_jd |->
               loc.current_ad_start_jd
               + SubPeriodDays(Lord(loc.ad_lord_index), Lord(loc.ad_lord_index))]
  /\ pc' = "pd_loop"
  /\ UNCHANGED <<fn, args, ret>>

\* one iteration of "while target_jd >= current_pd_end_jd"
PratyantardashaStep ==
  /\ fn = "calculate_vimsottari_dasha" /\ pc = "pd_loop"
  /\ args.target_jd >= loc.current_pd_end_jd
  /\ LET next == (loc.pd_lord_index + 1) % 9
     IN  loc' = [loc EXCEPT
                   !.pd_lord_index = next,
                   !.current_pd_start_jd = loc.current_pd_end_jd,
                   !.current_pd_end_jd =
                     loc.current_pd_end_jd
                     + SubPeriodDays(Lord(loc.ad_lord_index), Lord(next))]
  /\ UNCHANGED <<fn, pc, args, ret>>

\* return current_md_lord, current_ad_lord, current_pd_lord
DashaReturn ==
  /\ fn = "calculate_vimsottari_dasha" /\ pc = "pd_loop"
  /\ args.target_jd < loc.current_pd_end_jd
  /\ ret' = [md_lord |-> Lord(loc.current_lord_index),
             ad_lord |-> Lord(loc.ad_lord_index),
             pd_lord |-> Lord(loc.pd_lord_index)]
  /\ pc' = "done"
  /\ UNCHANGED <<fn, args, loc>>

DashaNext ==
  \/ DashaBegin
  \/ MahadashaStep
  \/ AntardashaBegin
  \/ AntardashaStep
  \/ PratyantardashaBegin
  \/ PratyantardashaStep
  \/ DashaReturn

SpecDasha == DashaInit /\ [][DashaNext]_vars

\* the function runs to its return: a statement that can execute does execute
SpecDashaFair == DashaInit /\ [][DashaNext]_vars /\ WF_vars(DashaNext)

---------------------------------------------------------------------------
(* Claims on the dasha timeline *)

DashaDone == fn = "calculate_vimsottari_dasha" /\ pc = "done"

\* C1: the selected Pratyantardasha interval lies inside the selected
\* Antardasha interval (pd.start >= ad.start and pd.end <= ad.end), the nine
\* Pratyantardasha spans partitioning the Antardasha span.
C1_PratyantarInsideAntar ==
  DashaDone =>
    /\ loc.current_pd_start_jd >= loc.current_ad_start_jd
    /\ loc.current_pd_end_jd <= loc.current_ad_end_jd

---------------------------------------------------------------------------
(* Parashari friendship checker *)

GRAHA_MAITRI_PARASHARI ==
  [Sun     |-> [Sun |-> 2, Moon |-> 2, Mars |-> 2, Mercury |-> 1, Jupiter |-> 2, Venus |-> 0, Saturn |-> 0],
   Moon    |-> [Sun |-> 2, Moon |-> 2, Mars |-> 1, Mercury |-> 2, Jupiter |-> 1, Venus |-> 1, Saturn |-> 0],
   Mars    |-> [Sun |-> 2, Moon |-> 2, Mars |-> 2, Mercury |-> 0, Jupiter |-> 2, Venus |-> 1, Saturn |-> 0],
   Mercury |-> [Sun |-> 2, Moon |-> 0, Mars |-> 1, Mercury |-> 2, Jupiter |-> 1, Venus |-> 2, Saturn |-> 1],
   Jupiter |-> [Sun |-> 2, Moon |-> 2, Mars |-> 2, Mercury |-> 0, Jupiter |-> 2, Venus |-> 0, Saturn |-> 1],
   Venus   |-> [Sun |-> 1, Moon |-> 1, Mars |-> 1, Mercury |-> 2, Jupiter |-> 0, Venus |-> 2, Saturn |-> 2],
   Saturn  |-> [Sun |-> 0, Moon |-> 0, Mars |-> 0, Mercury |-> 2, Jupiter |-> 1, Venus |-> 2, Saturn |-> 2]]

\* the empty dict {}
EmptyDict == [key \in {} |-> 0]

\* d.get(key, default)
dict_get(d, key, default) == IF key \in DOMAIN d THEN d[key] ELSE default

\* the rating a lord missing from the table gives or receives is 0 (enemy)
DirectedRating_AbsentIsEnemy(from_lord, to_lord) ==
  LET lord_map == IF from_lord \notin DOMAIN GRAHA_MAITRI_PARASHARI
                  THEN EmptyDict
                  ELSE GRAHA_MAITRI_PARASHARI[from_lord]
  IN  dict_get(lord_map, to_lord, 0)

\* l1_to_l2 (and, with the arguments swapped, l2_to_l1): the row of from_lord,
\* or {} when the table has no such row, read with .get(to_lord, 1)
DirectedRating(from_lord, to_lord) ==
  LET lord_map == IF from_lord \notin DOMAIN GRAHA_MAITRI_PARASHARI
                  THEN EmptyDict
                  ELSE GRAHA_MAITRI_PARASHARI[from_lord]
  IN  dict_get(lord_map, to_lord, 1)

check_parashari_friendship(lord1, lord2) ==
  LET l1_to_l2 == DirectedRating(lord1, lord2)
      l2_to_l1 == DirectedRating(lord2, lord1)
  IN  IF l1_to_l2 = 2 /\ l2_to_l1 = 2 THEN "Great Friends"
      ELSE IF l1_to_l2 = 2 \/ l2_to_l1 = 2 THEN "Friends"
      ELSE IF l1_to_l2 = 0 /\ l2_to_l1 = 0 THEN "Great Enemies"
      ELSE IF l1_to_l2 = 0 \/ l2_to_l1 = 0 THEN "Enemies"
      ELSE "Neutral"

\* the lord names the callers pass: the nine grahas and None
LordNames == {"Sun", "Moon", "Mars", "Mercury", "Jupiter", "Venus", "Saturn", "Rahu", "Ketu", None}

FriendshipInit ==
  /\ fn = "check_parashari_friendship"
  /\ pc = "call"
  /\ args \in [lord1 : LordNames, lord2 : LordNames]
  /\ loc = NoLocals
  /\ ret = None

Call_check_parashari_friendship ==
  /\ fn = "check_parashari_friendship" /\ pc = "call"
  /\ loc' = [l1_to_l2 |-> DirectedRating(args.lord1, args.lord2),
             l2_to_l1 |-> DirectedRating(args.lord2, args.lord1)]
  /\ ret' = check_parashari_friendship(args.lord1, args.lord2)
  /\ pc' = "done"
  /\ UNCHANGED <<fn, args>>

FriendshipNext == Call_check_parashari_friendship

SpecFriendship == FriendshipInit /\ [][FriendshipNext]_vars

---------------------------------------------------------------------------
(* Compatibility aggregator: supplementary factors, dasha verdict, final verdict *)

\* any(h in sigs for h in houses); significator lists are used as sets
check_affliction(sigs, houses) == sigs \cap houses # {}

\* promise_verdict of analyze_chart, from the 7th cusp sub-lord's significators
promise_verdict(csl_significators) ==
  LET marriage_promise == check_affliction(csl_significators, {2, 7, 11})
      marriage_denial == check_affliction(csl_significators, {1, 6, 10})
  IN  IF marriage_promise /\ ~marriage_denial THEN "STRONG"
      ELSE IF marriage_promise /\ marriage_denial THEN "MIXED"
      ELSE IF ~marriage_promise /\ marriage_denial THEN "DENIAL"
      ELSE "NEUTRAL"

\* A formatted text is the sequence of its pieces; text.startswith(prefix) and
\* "word in text" are asked of the first piece, text == literal of the whole.
StartsWith(text, prefix) == text[1] = prefix

\* results['Kuja_Dosha_Parity'] with the branches swapped: affliction on both
\* sides or on neither is the unmatched case
Kuja_Dosha_Parity_Inverted(chart1_data, chart2_data) ==
  LET c1_dosha == chart1_data.mars_dosha_status.Total = "Afflicted"
      c2_dosha == chart2_data.mars_dosha_status.Total = "Afflicted"
  IN  IF c1_dosha # c2_dosha THEN <<"Matched", " (Dosha Parity)">>
      ELSE <<"Unmatched", " (Dosha in ", chart1_data.name, ")">>

\* results['Kuja_Dosha_Parity']
Kuja_Dosha_Parity(chart1_data, chart2_data) ==
  LET c1_dosha == chart1_data.mars_dosha_status.Total = "Afflicted"
      c2_dosha == chart2_data.mars_dosha_status.Total = "Afflicted"
  IN  IF c1_dosha = c2_dosha THEN <<"Matched", " (Dosha Parity)">>
      ELSE IF c1_dosha /\ ~c2_dosha THEN <<"Unmatched", " (Dosha in ", chart1_data.name, ")">>
      ELSE IF c2_dosha /\ ~c1_dosha THEN <<"Unmatched", " (Dosha in ", chart2_data.name, ")">>
      ELSE <<"Clean">>

\* The results dict; the two display strings Rasi_Navamsa_Match and
\* Lagna_Lord_Friendship, which nothing reads back, are left out.
calculate_supplementary_factors(chart1_data, chart2_data) ==
  LET c1_ayur_risk == check_affliction(chart1_data.csl_significators, {8, 12})
      c2_ayur_risk == check_affliction(chart2_data.csl_significators, {8, 12})
      c1_prog_promise == check_affliction(chart1_data.csl_significators, {5, 11})
      c2_prog_promise == check_affliction(chart2_data.csl_significators, {5, 11})
      c1_dhana == check_affliction(chart1_data.csl_significators, {2, 11})
      c2_dhana == check_affliction(chart2_data.csl_significators, {2, 11})
      c1_karaka == check_affliction(chart1_data.jupiter_significators, {7, 11})
      c2_karaka == check_affliction(chart2_data.venus_significators, {7, 11})
      c1_7th_lord_ok == ~check_affliction(chart1_data.csl_significators, {6, 8, 12})
      c2_7th_lord_ok == ~check_affliction(chart2_data.csl_significators, {6, 8, 12})
      c1_sat_8th == 8 \in chart1_data.saturn_significators
      c2_sat_8th == 8 \in chart2_data.saturn_significators
  IN  [Kuja_Dosha_Parity |-> Kuja_Dosha_Parity(chart1_data, chart2_data),
       Ayurvriddhi_Match |-> IF c1_ayur_risk /\ c2_ayur_risk THEN "Poor (Shared Risk)" ELSE "Good",
       Vaidhavya_Risk |-> IF c1_ayur_risk /\ c2_ayur_risk THEN "High" ELSE "Low",
       Pitra_Dosha_Match |->
         IF chart1_data.pitra_dosha_present /\ chart2_data.pitra_dosha_present
         THEN "Present in Both" ELSE "Mixed",
       Progeny_Match |-> IF c1_prog_promise /\ c2_prog_promise THEN "Strong" ELSE "Weak/Mixed",
       Financial_Match |-> IF c1_dhana /\ c2_dhana THEN "Strong" ELSE "Average",
       Karaka_Compatibility |-> IF c1_karaka /\ c2_karaka THEN "High" ELSE "Moderate",
       Seventh_Lord_Strength |-> IF c1_7th_lord_ok /\ c2_7th_lord_ok THEN "Good" ELSE "Weak/Afflicted",
       Ashtama_Shani_Effect |-> IF c1_sat_8th \/ c2_sat_8th THEN "High Risk (Natal)" ELSE "Low Risk",
       Dasha_Synchronization |->
         IF chart1_data.marriage_promise # "DENIAL" /\ chart2_data.marriage_promise # "DENIAL"
         THEN <<"Favorable">> ELSE <<"Unfavorable">>,
       D9_Lagna_Lord_Friendship |->
         check_parashari_friendship(chart1_data.d9_lagna_lord, chart2_data.d9_lagna_lord)]

\* the denial houses tested first: a lord linking both kinds of houses counts
\* as a denial period
check_dasha_marriage_potential_DenialFirst(significators) ==
  LET marriage_links == check_affliction(significators, {2, 7, 11})
      denial_links == check_affliction(significators, {1, 6, 10})
  IN  IF denial_links THEN "DENIAL_PERIOD"
      ELSE IF marriage_links THEN "STRONG_PROMISE"
      ELSE "NEUTRAL"

check_dasha_marriage_potential(significators) ==
  LET marriage_links == check_affliction(significators, {2, 7, 11})
      denial_links == check_affliction(significators, {1, 6, 10})
  IN  IF marriage_links /\ ~denial_links THEN "STRONG_PROMISE"
      ELSE IF marriage_links /\ denial_links THEN "MIXED_RISK"
      ELSE IF denial_links THEN "DENIAL_PERIOD"
      ELSE "NEUTRAL"

\* chart["planet_significators"].get(lord, [])
lord_sigs(chart, lord) == dict_get(chart.planet_significators, lord, {})

\* the Mahadasha lord counted among the lords that can support marriage
marriage_support_WithMahadasha(chart) ==
  \/ check_dasha_marriage_potential(lord_sigs(chart, chart.md_lord)) = "STRONG_PROMISE"
  \/ check_dasha_marriage_potential(lord_sigs(chart, chart.ad_lord)) = "STRONG_PROMISE"
  \/ check_dasha_marriage_potential(lord_sigs(chart, chart.pd_lord)) = "STRONG_PROMISE"

marriage_support(chart) ==
  \/ check_dasha_marriage_potential(lord_sigs(chart, chart.ad_lord)) = "STRONG_PROMISE"
  \/ check_dasha_marriage_potential(lord_sigs(chart, chart.pd_lord)) = "STRONG_PROMISE"

denial_active(chart) ==
  \/ check_dasha_marriage_potential(lord_sigs(chart, chart.ad_lord)) = "DENIAL_PERIOD"
  \/ check_dasha_marriage_potential(lord_sigs(chart, chart.pd_lord)) = "DENIAL_PERIOD"

\* natal_dosha_denial
natal_dosha_denial(chart1, chart2, supplementary_results) ==
  /\ chart1.mars_dosha_status.Total = "Afflicted"
  /\ chart2.mars_dosha_status.Total = "Afflicted"
  /\ supplementary_results.Kuja_Dosha_Parity # <<"Matched", " (Dosha Parity)">>

\* the dasha_verdict ladder
dasha_verdict(chart1, chart2, supplementary_results) ==
  LET c1_marriage_support == marriage_support(chart1)
      c2_marriage_support == marriage_support(chart2)
      c1_denial_active == denial_active(chart1)
      c2_denial_active == denial_active(chart2)
  IN  IF c1_denial_active \/ c2_denial_active
      THEN <<"DENIAL", ": Current Dasha period strongly signifies denial houses (1, 6, 10).">>
      ELSE IF /\ natal_dosha_denial(chart1, chart2, supplementary_results)
              /\ ~(c1_marriage_support /\ c2_marriage_support)
      THEN <<"DENIAL", ": Severe natal affliction (unmatched Dosha) blocks marriage.">>
      ELSE IF c1_marriage_support /\ c2_marriage_support
      THEN <<"STRONGLY SUPPORTIVE", ": Dasha periods support marriage in both charts.">>
      ELSE IF c1_marriage_support \/ c2_marriage_support
      THEN <<"MIXED", ": Dasha supports marriage for only one native.">>
      ELSE <<"WEAK/NEUTRAL", ": Current Dasha relies heavily on natal promise.">>

\* "or" for "and" in the Strong test: one strong promise is enough
kp_promise_status_EitherStrong(c1_promise, c2_promise) ==
  IF c1_promise = "DENIAL" \/ c2_promise = "DENIAL" THEN "DENIAL"
  ELSE IF c1_promise = "STRONG" \/ c2_promise = "STRONG" THEN "Strong"
  ELSE IF c1_promise = "MIXED" /\ c2_promise = "MIXED" THEN "Mixed"
  ELSE "Average"

kp_promise_status(c1_promise, c2_promise) ==
  IF c1_promise = "DENIAL" \/ c2_promise = "DENIAL" THEN "DENIAL"
  ELSE IF c1_promise = "STRONG" /\ c2_promise = "STRONG" THEN "Strong"
  ELSE IF c1_promise = "MIXED" /\ c2_promise = "MIXED" THEN "Mixed"
  ELSE "Average"

\* every test compares the whole text: a verdict with its explanation is
\* neither a denial nor strong
kp_dasha_status_WholeTextOnly(verdict) ==
  IF verdict = <<"DENIAL">> THEN "DENIAL"
  ELSE IF verdict = <<"STRONGLY SUPPORTIVE">> THEN "Strong"
  ELSE IF verdict \in {<<"MIXED">>, <<"WEAK/NEUTRAL">>} THEN "Mixed"
  ELSE "Good"

\* the third test made on the first word of the text, like the first two
kp_dasha_status_MixedByPrefix(verdict) ==
  IF StartsWith(verdict, "DENIAL") THEN "DENIAL"
  ELSE IF StartsWith(verdict, "STRONGLY SUPPORTIVE") THEN "Strong"
  ELSE IF StartsWith(verdict, "MIXED") \/ StartsWith(verdict, "WEAK/NEUTRAL") THEN "Mixed"
  ELSE "Good"

\* "dasha_verdict in [...]" compares the whole text with the two bare words
kp_dasha_status(verdict) ==
  IF StartsWith(verdict, "DENIAL") THEN "DENIAL"
  ELSE IF StartsWith(verdict, "STRONGLY SUPPORTIVE") THEN "Strong"
  ELSE IF verdict \in {<<"MIXED">>, <<"WEAK/NEUTRAL">>} THEN "Mixed"
  ELSE "Good"

Count(condition) == IF condition THEN 1 ELSE 0

good_factors(supp_results, d1_score, d9_score, d50_score) ==
    Count(~StartsWith(supp_results.Kuja_Dosha_Parity, "Unmatched"))
  + Count(supp_results.Ayurvriddhi_Match = "Good")
  + Count(supp_results.Vaidhavya_Risk = "Low")
  + Count(supp_results.Pitra_Dosha_Match # "Present in Both")
  + Count(supp_results.Progeny_Match = "Strong")
  + Count(supp_results.Financial_Match = "Strong")
  + Count(supp_results.Karaka_Compatibility = "High")
  + Count(supp_results.Seventh_Lord_Strength = "Good")
  + Count(supp_results.Ashtama_Shani_Effect = "Low Risk")
  + Count(d1_score >= 5)
  + Count(d9_score >= 5)
  + Count(d50_score >= 5)

\* "good_factors <= 6" for "good_factors < 6": six favorable factors are Weak
fold_summary_status_WeakAtSix(good) ==
  IF good >= 9 THEN "Strong"
  ELSE IF good <= 6 THEN "Weak"
  ELSE "Average"

fold_summary_status(good) ==
  IF good >= 9 THEN "Strong"
  ELSE IF good < 6 THEN "Weak"
  ELSE "Average"

\* the causes appended to reasons_to_fail, by kind
reasons_to_fail(promise_status, dasha_status, guna_score, fold_status) ==
     (IF promise_status = "DENIAL" THEN {"promise"} ELSE {})
  \cup (IF dasha_status = "DENIAL" THEN {"dasha"} ELSE {})
  \cup (IF guna_score < 18 THEN {"guna"} ELSE {})
  \cup (IF fold_status = "Weak" THEN {"supplementary"} ELSE {})

reasons_for_caution(promise_status, dasha_status, fold_status) ==
     (IF promise_status # "Strong" THEN {"promise"} ELSE {})
  \cup (IF dasha_status # "Strong" THEN {"dasha"} ELSE {})
  \cup (IF fold_status # "Strong" THEN {"supplementary"} ELSE {})

final_verdict_text(promise_status, dasha_status, guna_score, fold_status) ==
  IF reasons_to_fail(promise_status, dasha_status, guna_score, fold_status) # {}
  THEN "TRY ANOTHER MATCH"
  ELSE IF reasons_for_caution(promise_status, dasha_status, fold_status) # {}
  THEN "PROCEED (With Caution)"
  ELSE "PROCEED (Strongly Recommended)"

(* Inputs of the report: two analysed charts *)

\* mars_dosha_status["Total"]: no affliction, an affliction that stands, an
\* affliction with a cancellation reason
MarsDoshaTotals == {"Not Afflicted", "Afflicted", "Cancelled (Own Sign)"}

\* significators of the 7th cusp sub-lord: neutral, denial, strong, mixed,
\* and strong with a link to the 8th house
CslSets == {{}, {6}, {11}, {6, 11}, {8, 11}}

\* significators of the Antardasha lord: neutral, denial period, strong promise
AdSigSets == {{}, {6}, {7}}

\* significators of the Pratyantardasha lord: mixed risk, denial period,
\* strong promise
PdSigSets == {{6, 7}, {6}, {7}}

\* what build_match_table can return around its threshold of 5 friendly pairs
MatchScores == {4, 5}

\* two natives; their Moons score 28 with themselves, 18 one way round and 16
\* the other
Natives ==
  {[name |-> "Asha", moon_lon |-> Deg(10), d9_lagna_lord |-> "Jupiter",
    pitra_dosha_present |-> FALSE, jupiter_significators |-> {7},
    venus_significators |-> {7}, saturn_significators |-> {}],
   [name |-> "Ravi", moon_lon |-> Deg(40), d9_lagna_lord |-> "Mars",
    pitra_dosha_present |-> TRUE, jupiter_significators |-> {},
    venus_significators |-> {}, saturn_significators |-> {8}]}

\* The dict analyze_chart returns, with the fields the report reads; the
\* nested analysis_data holds the same values and is not kept apart.
Charts ==
  {[name |-> n.name,
    moon_lon |-> n.moon_lon,
    d9_lagna_lord |-> n.d9_lagna_lord,
    pitra_dosha_present |-> n.pitra_dosha_present,
    jupiter_significators |-> n.jupiter_significators,
    venus_significators |-> n.venus_significators,
    saturn_significators |-> n.saturn_significators,
    mars_dosha_status |-> [Total |-> total],
    csl_significators |-> csl,
    marriage_promise |-> promise_verdict(csl),
    planet_significators |-> sigs,
    md_lord |-> "Mercury",
    ad_lord |-> "Moon",
    pd_lord |-> "Sun"] :
   n \in Natives, total \in MarsDoshaTotals, csl \in CslSets,
   sigs \in [Moon : AdSigSets, Sun : PdSigSets]}

\* "not chart": None or an empty dict
IsFalsy(chart) == DOMAIN chart = {}

ReportInit ==
  /\ fn = "generate_compatibility_report"
  /\ pc = "call"
  /\ args \in [chart1 : Charts \cup {EmptyDict}, chart2 : Charts \cup {EmptyDict}]
  /\ loc = NoLocals
  /\ ret = None

\* "if not chart1 or not chart2: return None"
ReportMissingChart ==
  /\ fn = "generate_compatibility_report" /\ pc = "call"
  /\ IsFalsy(args.chart1) \/ IsFalsy(args.chart2)
  /\ ret' = [final_verdict_text |-> None]
  /\ pc' = "done"
  /\ UNCHANGED <<fn, args, loc>>

\* The report from the supplementary factors to the final verdict. The three
\* match tables count friendly sign-lord pairs over the planets of the D1, D9
\* and D50 charts, which the chart records here do not carry: their counts are
\* any of MatchScores.
Call_generate_compatibility_report ==
  /\ fn = "generate_compatibility_report" /\ pc = "call"
  /\ ~IsFalsy(args.chart1) /\ ~IsFalsy(args.chart2)
  /\ \E d1_score \in MatchScores, d9_score \in MatchScores, d50_score \in MatchScores :
       LET chart1 == args.chart1
           chart2 == args.chart2
           supplementary_results == calculate_supplementary_factors(chart1, chart2)
           guna_score == calculate_ashtakoota(chart1.moon_lon, chart2.moon_lon) \div 2
           verdict == dasha_verdict(chart1, chart2, supplementary_results)
           \* supplementary_results['Dasha_Synchronization'] = dasha_verdict
           supp_results == [supplementary_results EXCEPT !.Dasha_Synchronization = verdict]
           promise_status == kp_promise_status(chart1.marriage_promise, chart2.marriage_promise)
           dasha_status == kp_dasha_status(verdict)
           good == good_factors(supp_results, d1_score, d9_score, d50_score)
           fold_status == fold_summary_status(good)
       IN  /\ loc' = [supplementary_results |-> supp_results,
                      guna_score |-> guna_score,
                      dasha_verdict |-> verdict,
                      d1_score |-> d1_score,
                      d9_score |-> d9_score,
                      d50_score |-> d50_score,
                      kp_promise_status |-> promise_status,
                      kp_dasha_status |-> dasha_status,
                      good_factors |-> good,
                      fold_summary_status |-> fold_status,
                      reasons_to_fail |->
                        reasons_to_fail(promise_status, dasha_status, guna_score, fold_status)]
           /\ ret' = [final_verdict_text |->
                        final_verdict_text(promise_status, dasha_status, guna_score, fold_status)]
  /\ pc' = "done"
  /\ UNCHANGED <<fn, args>>

ReportNext ==
  \/ ReportMissingChart
  \/ Call_generate_compatibility_report

SpecReport == ReportInit /\ [][ReportNext]_vars

---------------------------------------------------------------------------
(* Claims on the compatibility aggregator *)

ReportDone ==
  /\ fn = "generate_compatibility_report" /\ pc = "done"
  /\ ~IsFalsy(args.chart1) /\ ~IsFalsy(args.chart2)

\* the native carries the Mars dosha: the affliction stands uncancelled
CarriesDosha(chart) == chart.mars_dosha_status.Total = "Afflicted"

\* C11: Kuja_Dosha_Parity is "Matched (Dosha Parity)" exactly when both natives
\* carry the Mars dosha or neither does; otherwise it is an "Unmatched" verdict
\* naming the one afflicted native. Equal affliction status is always Matched.
C11_DoshaParity ==
  ReportDone =>
    LET parity == loc.supplementary_results.Kuja_Dosha_Parity
        c1 == CarriesDosha(args.chart1)
        c2 == CarriesDosha(args.chart2)
    IN  /\ (parity = <<"Matched", " (Dosha Parity)">>) <=> (c1 <=> c2)
        /\ (c1 /\ ~c2) => parity = <<"Unmatched", " (Dosha in ", args.chart1.name, ")">>
        /\ (c2 /\ ~c1) => parity = <<"Unmatched", " (Dosha in ", args.chart2.name, ")">>
        /\ (args.chart1.mars_dosha_status = args.chart2.mars_dosha_status)
             => StartsWith(parity, "Matched")

\* the second native alone is afflicted, the first native's dosha being
\* cancelled, and the verdict names the second
C11_Witness ==
  /\ ReportDone
  /\ args.chart1.mars_dosha_status.Total = "Cancelled (Own Sign)"
  /\ CarriesDosha(args.chart2)
  /\ args.chart1.name # args.chart2.name
  /\ loc.supplementary_results.Kuja_Dosha_Parity
       = <<"Unmatched", " (Dosha in ", args.chart2.name, ")">>

\* one native duplicated
IdenticalCharts == args.chart1 = args.chart2

\* a significator set that links denial houses and no promise house
InDenialPeriod(sigs) == sigs \cap {1, 6, 10} # {} /\ sigs \cap {2, 7, 11} = {}

\* the active Antardasha or Pratyantardasha lord of the chart is in a denial period
ActiveLordDenial(chart) ==
  \/ InDenialPeriod(chart.planet_significators[chart.ad_lord])
  \/ InDenialPeriod(chart.planet_significators[chart.pd_lord])

\* a Dasha_Synchronization text that is not a denial
FavorableSync(text) == ~StartsWith(text, "DENIAL") /\ ~StartsWith(text, "Unfavorable")

\* C12, as stated: for two identical charts the Dasha_Synchronization verdict
\* is favorable, for every chart.
C12_IdenticalFavorable_AsStated ==
  (ReportDone /\ IdenticalCharts)
    => FavorableSync(loc.supplementary_results.Dasha_Synchronization)

\* C12, amended: for two identical charts the Dasha_Synchronization verdict of
\* the report is the dasha verdict; it is favorable exactly when neither the
\* Antardasha nor the Pratyantardasha lord of the chart is in a denial period,
\* and it is never the one-sided MIXED verdict.
C12_IdenticalSync ==
  (ReportDone /\ IdenticalCharts) =>
    LET sync == loc.supplementary_results.Dasha_Synchronization
    IN  /\ sync = loc.dasha_verdict
        /\ FavorableSync(sync) <=> ~ActiveLordDenial(args.chart1)
        /\ ~StartsWith(sync, "MIXED")

\* a duplicated native whose natal promise is DENIAL and whose dasha lords
\* support marriage: the verdict written is the supportive dasha verdict
C12_Witness ==
  /\ ReportDone /\ IdenticalCharts
  /\ args.chart1.marriage_promise = "DENIAL"
  /\ StartsWith(loc.supplementary_results.Dasha_Synchronization, "STRONGLY SUPPORTIVE")

\* C13: if either native's natal marriage promise is DENIAL, or the active
\* Antardasha or Pratyantardasha lord of either native is in a denial period,
\* the final verdict is "TRY ANOTHER MATCH", whatever the Ashtakoota score and
\* the number of favorable factors.
C13_HardDenialRejects ==
  (/\ ReportDone
   /\ \/ args.chart1.marriage_promise = "DENIAL"
      \/ args.chart2.marriage_promise = "DENIAL"
      \/ ActiveLordDenial(args.chart1)
      \/ ActiveLordDenial(args.chart2))
    => ret.final_verdict_text = "TRY ANOTHER MATCH"

\* only the second native's Pratyantardasha lord denies; the natal promises are
\* strong, the Ashtakoota score passes and nine or more factors are favorable
C13_Witness ==
  /\ ReportDone
  /\ args.chart1.marriage_promise = "STRONG" /\ args.chart2.marriage_promise = "STRONG"
  /\ ~ActiveLordDenial(args.chart1)
  /\ InDenialPeriod(args.chart2.planet_significators[args.chart2.pd_lord])
  /\ ~InDenialPeriod(args.chart2.planet_significators[args.chart2.ad_lord])
  /\ loc.guna_score >= 18 /\ loc.good_factors >= 9
  /\ loc.reasons_to_fail = {"dasha"}
  /\ ret.final_verdict_text = "TRY ANOTHER MATCH"

\* a significator set that links a promise house and no denial house
InStrongPromise(sigs) == sigs \cap {2, 7, 11} # {} /\ sigs \cap {1, 6, 10} = {}

\* the active Antardasha or Pratyantardasha lord of the chart supports marriage
ActiveLordSupport(chart) ==
  \/ InStrongPromise(chart.planet_significators[chart.ad_lord])
  \/ InStrongPromise(chart.planet_significators[chart.pd_lord])

\* C14: when exactly one native carries an uncancelled Mars dosha (the parity
\* is Unmatched) and the active dasha lords do not support marriage in both
\* charts, the final verdict is "TRY ANOTHER MATCH".
C14_UnmatchedDoshaRejects ==
  (/\ ReportDone
   /\ CarriesDosha(args.chart1) # CarriesDosha(args.chart2)
   /\ ~(ActiveLordSupport(args.chart1) /\ ActiveLordSupport(args.chart2)))
    => ret.final_verdict_text = "TRY ANOTHER MATCH"

\* a hard denial signal the final verdict acts on: a natal promise of DENIAL
\* or an active dasha lord in a denial period
HardDenialSignal ==
  \/ args.chart1.marriage_promise = "DENIAL"
  \/ args.chart2.marriage_promise = "DENIAL"
  \/ ActiveLordDenial(args.chart1)
  \/ ActiveLordDenial(args.chart2)

\* C15: when no hard denial signal is present, the final verdict is
\* "TRY ANOTHER MATCH" if and only if the Ashtakoota score is below 18 or fewer
\* than 6 of the 12 favorable signals hold.
C15_SoftReject ==
  (ReportDone /\ ~HardDenialSignal) =>
    ((ret.final_verdict_text = "TRY ANOTHER MATCH")
       <=> (loc.guna_score < 18 \/ loc.good_factors < 6))

\* rejected for the Ashtakoota score alone: no denial signal, six or more
\* favorable signals, a score below 18
C15_Witness ==
  /\ ReportDone /\ ~HardDenialSignal
  /\ loc.guna_score < 18 /\ loc.good_factors >= 6
  /\ loc.reasons_to_fail = {"guna"}
  /\ ret.final_verdict_text = "TRY ANOTHER MATCH"

\* C16: the final verdict is "PROCEED (Strongly Recommended)" if and only if no
\* reject condition holds, both natal promises are STRONG, the dasha verdict is
\* STRONGLY SUPPORTIVE and at least 9 of the 12 factors are favorable; every
\* other pair that is not rejected gets "PROCEED (With Caution)".
C16_StronglyRecommended ==
  ReportDone =>
    LET rejected == \/ HardDenialSignal
                    \/ loc.guna_score < 18
                    \/ loc.good_factors < 6
        all_strong == /\ args.chart1.marriage_promise = "STRONG"
                      /\ args.chart2.marriage_promise = "STRONG"
                      /\ StartsWith(loc.dasha_verdict, "STRONGLY SUPPORTIVE")
                      /\ loc.good_factors >= 9
    IN  /\ (ret.final_verdict_text = "PROCEED (Strongly Recommended)")
             <=> (~rejected /\ all_strong)
        /\ (~rejected /\ ~all_strong)
             => ret.final_verdict_text = "PROCEED (With Caution)"

\* a pair that is strongly recommended with exactly nine favorable factors and
\* an Ashtakoota score of exactly 18
C16_Witness ==
  /\ ReportDone
  /\ loc.good_factors = 9 /\ loc.guna_score = 18
  /\ ret.final_verdict_text = "PROCEED (Strongly Recommended)"

---------------------------------------------------------------------------
(* Julian day of the birth instant *)

MaxLocalHours == 24

\* the zones pytz.timezone resolves here, with their offset from UTC in
\* minutes (zones without daylight saving time)
ZoneOffsetMinutes == ("UTC" :> 0) @@ ("Asia/Kolkata" :> 330) @@ ("Asia/Tokyo" :> 540)

\* time-zone identifiers a caller can pass: resolvable ones, a name pytz does
\* not know and the placeholder of the zone selector
TimezoneStrings == DOMAIN ZoneOffsetMinutes \cup {"Mars/Olympus", "Select Timezone..."}

\* the civil birth time, in minutes of the local calendar
LocalMinutes == {60 * h : h \in 0..(MaxLocalHours - 1)}

JulianInit ==
  /\ fn = "analyze_chart"
  /\ pc = "call"
  /\ args \in [local_minutes : LocalMinutes, timezone_str : TimezoneStrings]
  /\ loc = NoLocals
  /\ ret = None

\* tz = pytz.timezone(timezone_str) succeeds
TimezoneResolved ==
  /\ fn = "analyze_chart" /\ pc = "call"
  /\ args.timezone_str \in DOMAIN ZoneOffsetMinutes
  /\ loc' = [tz |-> args.timezone_str]
  /\ pc' = "localize"
  /\ UNCHANGED <<fn, args, ret>>

\* except pytz.exceptions.UnknownTimeZoneError: tz = pytz.utc
TimezoneUnknown ==
  /\ fn = "analyze_chart" /\ pc = "call"
  /\ args.timezone_str \notin DOMAIN ZoneOffsetMinutes
  /\ loc' = [tz |-> "UTC"]
  /\ pc' = "localize"
  /\ UNCHANGED <<fn, args, ret>>

\* local_dt = tz.localize(...); utc_dt = local_dt.astimezone(pytz.utc); the
\* Julian day returned is the UTC instant, kept in minutes
JulianDayReturn ==
  /\ fn = "analyze_chart" /\ pc = "localize"
  /\ loc' = [tz |-> loc.tz, jd |-> args.local_minutes - ZoneOffsetMinutes[loc.tz]]
  /\ pc' = "ephemeris"
  /\ UNCHANGED <<fn, args, ret>>

\* the rest of the try block succeeds: a chart for the Julian day is returned
AnalyzeChartReturn ==
  /\ fn = "analyze_chart" /\ pc = "ephemeris"
  /\ ret' = [outcome |-> "chart", jd |-> loc.jd]
  /\ pc' = "done"
  /\ UNCHANGED <<fn, args, loc>>

\* an ephemeris call or a later step of the try block raises: the exception is
\* logged and raised again
AnalyzeChartRaise ==
  /\ fn = "analyze_chart" /\ pc = "ephemeris"
  /\ ret' = [outcome |-> "raised"]
  /\ pc' = "done"
  /\ UNCHANGED <<fn, args, loc>>

JulianNext ==
  \/ TimezoneResolved
  \/ TimezoneUnknown
  \/ JulianDayReturn
  \/ AnalyzeChartReturn
  \/ AnalyzeChartRaise

SpecJulianDay == JulianInit /\ [][JulianNext]_vars

\* C17: an unresolvable time-zone identifier makes the chart analysis fail
\* with an error; no chart is produced by silently substituting a default
\* time zone.
C17_UnknownZoneFails ==
  (/\ fn = "analyze_chart" /\ pc = "done"
   /\ args.timezone_str \notin DOMAIN ZoneOffsetMinutes)
    => ret.outcome = "raised"

---------------------------------------------------------------------------
(* Claims on the friendship checker *)

FriendshipDone == fn = "check_parashari_friendship" /\ pc = "done"

FriendshipVerdicts == {"Great Friends", "Friends", "Great Enemies", "Enemies", "Neutral"}

\* the lord has no row in the friendship table
AbsentLord(lord) == lord \notin {"Sun", "Moon", "Mars", "Mercury", "Jupiter", "Venus", "Saturn"}

\* C18: check_parashari_friendship never raises: it returns one of its five
\* verdicts for every pair of lord names, and when at least one lord is absent
\* from the friendship table (Rahu, Ketu, None) both directed ratings default
\* to neutral (1) and the result is "Neutral".
C18_AbsentLordNeutral ==
  FriendshipDone =>
    /\ ret \in FriendshipVerdicts
    /\ (AbsentLord(args.lord1) \/ AbsentLord(args.lord2))
         => (loc.l1_to_l2 = 1 /\ loc.l2_to_l1 = 1 /\ ret = "Neutral")

\* a lord of the table paired with one that is not in it
C18_Witness ==
  /\ FriendshipDone
  /\ args.lord1 = "Saturn" /\ args.lord2 = "Rahu"
  /\ ret = "Neutral"

---------------------------------------------------------------------------
(* Claims on the termination and the Antardasha partition of the dasha walk *)

AntardashaSpan(md_lord, lord) ==
  (DASHA_PERIODS[md_lord] * DASHA_PERIODS[lord] * DAYS_PER_YEAR) \div TOTAL_DASHAS_YEARS

\* the sum of the first n Antardasha spans of the Mahadasha of the lord at
\* md_index, taken in cycle order starting at that lord
RECURSIVE AntardashaSpanSum(_, _)
AntardashaSpanSum(md_index, n) ==
  IF n = 0 THEN 0
  ELSE AntardashaSpanSum(md_index, n - 1)
       + AntardashaSpan(Lord(md_index), Lord((md_index + n - 1) % 9))

---------------------------------------------------------------------------
\* Order of the cancellation rules of check_kuja_cancellation

KujaMarsSign == PyMod(TruncDiv(args.mars_lon, SignSpan), 12)

\* The benefics of one call as <<name, longitude>> pairs: Jupiter and Venus
\* when the chart has them, the Moon when it is 150 to 210 degrees from the Sun
KujaBenefics ==
  {<<name, args.planets[name][1]>> : name \in {n \in {"Jupiter", "Venus"} : args.planets[n] # Absent}}
  \cup (IF Abs(args.moon_lon - args.sun_lon) > Deg(150) /\ Abs(args.moon_lon - args.sun_lon) < Deg(210)
        THEN {<<"Moon", args.moon_lon>>}
        ELSE {})

\* circular distance of two longitudes of [0,360)
CircularDistance(a, b) == Min(Abs(a - b), FullCircle - Abs(a - b))

ConjunctBenefics == {b \in KujaBenefics : CircularDistance(args.mars_lon, b[2]) < Deg(8)}
OpposingBenefics ==
  {b \in KujaBenefics : KujaMarsSign = (PyMod(TruncDiv(b[2], SignSpan), 12) + 6) % 12}

\* The reasons the first rule whose condition holds can give, rules taken in
\* the order a, b, c, d, e, f; {"Afflicted"} when no rule holds
RuleOrderReasons ==
  LET jup == args.planets.Jupiter
      jup_sign == PyMod(TruncDiv(jup[1], SignSpan), 12)
      d9 == args.d9_planets.Mars
      d9_sign == TruncDiv(d9[1], SignSpan)
  IN  IF KujaMarsSign \in {0, 7} THEN {"Cancelled (Own Sign D1)"}
      ELSE IF KujaMarsSign = 9 THEN {"Cancelled (Exalted D1)"}
      ELSE IF KujaMarsSign = 3 THEN {"Cancelled (Debilitated D1)"}
      ELSE IF KujaMarsSign \in {4, 8, 11} THEN {"Cancelled (Benefic Sign D1)"}
      ELSE IF ConjunctBenefics # {}
      THEN {"Cancelled (Conj. " \o b[1] \o " D1)" : b \in ConjunctBenefics}
      ELSE IF OpposingBenefics # {}
      THEN {"Cancelled (Aspect " \o b[1] \o " D1)" : b \in OpposingBenefics}
      ELSE IF jup # Absent /\ KujaMarsSign \in {(jup_sign + 4) % 12, (jup_sign + 8) % 12}
      THEN {"Cancelled (Aspect Jupiter D1)"}
      ELSE IF d9 # Absent /\ d9_sign \in {0, 7} THEN {"Cancelled (Own Sign D9)"}
      ELSE IF d9 # Absent /\ d9_sign = 9 THEN {"Cancelled (Exalted D9)"}
      ELSE IF d9 # Absent /\ d9_sign = 3 THEN {"Cancelled (Debilitated D9)"}
      ELSE {"Afflicted"}

\* C21: check_kuja_cancellation returns the reason of the first rule, in the
\* order a (own, exalted or debilitated sign), b (benefic sign), c (conjunction
\* within 8 degrees of a benefic), d (7th-sign aspect from a benefic),
\* e (Jupiter's 5th/9th aspect), f (D9 dignity), whose condition holds, so a
\* conjunction with any benefic wins over a 7th-sign aspect from another one.
C21_RuleOrder ==
  KujaDone =>
    /\ ret.reason \in RuleOrderReasons
    /\ ret.cancelled <=> ret.reason # "Afflicted"

\* The part of the order the code does keep: the sign rules come first, and a
\* conjunction with a benefic wins over the aspect of the same or a later
\* benefic of the order Jupiter, Venus, Moon
C21_SignRulesFirst ==
  (KujaDone /\ KujaMarsSign \in {0, 3, 4, 7, 8, 9, 11}) => ret.reason \in RuleOrderReasons

\* Mars in Libra conjunct Venus and opposed by Jupiter in Aries: the call
\* answers with Jupiter's aspect
C21_AspectBeatsConjunction ==
  /\ KujaDone
  /\ ConjunctBenefics # {} /\ OpposingBenefics # {}
  /\ KujaMarsSign \notin {0, 3, 4, 7, 8, 9, 11}
  /\ ret.reason = "Cancelled (Aspect Jupiter D1)"
  /\ \A b \in ConjunctBenefics : b[1] # "Jupiter"

---------------------------------------------------------------------------
\* Dosha evaluator: check_doshas_from_points

HouseNumbers == 1..12
DoshaRahuHouses == {1, 4, 9}
\* Mars in Aries or Taurus, with or without Jupiter opposite Taurus, the Moon
\* 5 degrees from the Taurus Mars and 160 or 260 degrees from the Sun
DoshaBodies ==
  [mars_lon : {Deg(0), Deg(45)},
   planets : [Jupiter : {Absent, Some(Deg(215))}, Venus : {Some(Deg(100))}],
   d9_planets : [Mars : {Absent}],
   moon_lon : {Deg(40)},
   sun_lon : {Deg(200), Deg(300)}]

kuja_dosha_houses == {2, 4, 7, 8, 12}
rahu_dosha_houses == {1, 5, 9}

AfflictedOrClean(afflicted) == IF afflicted THEN "Afflicted" ELSE "Clean"

mars_dosha_status_AllAxes(mars_house, moon_house, venus_house, mars_lon, planets, d9_planets, moon_lon, sun_lon) ==
  LET mars_from_moon == ((mars_house - moon_house + 12) % 12) + 1
      mars_from_venus == ((mars_house - venus_house + 12) % 12) + 1
      lagna_afflicted == mars_house \in kuja_dosha_houses
      chandra_afflicted == mars_from_moon \in kuja_dosha_houses
      shukra_afflicted == mars_from_venus \in kuja_dosha_houses
      cancellation == check_kuja_cancellation(mars_lon, planets, d9_planets, moon_lon, sun_lon)
  IN  [Lagna |-> AfflictedOrClean(lagna_afflicted),
       Chandra |-> AfflictedOrClean(chandra_afflicted),
       Shukra |-> AfflictedOrClean(shukra_afflicted),
       Total |-> IF lagna_afflicted /\ chandra_afflicted /\ shukra_afflicted
                 THEN (IF cancellation.cancelled THEN cancellation.reason ELSE "Afflicted")
                 ELSE "Not Afflicted"]

mars_dosha_status(mars_house, moon_house, venus_house, mars_lon, planets, d9_planets, moon_lon, sun_lon) ==
  LET mars_from_moon == ((mars_house - moon_house + 12) % 12) + 1
      mars_from_venus == ((mars_house - venus_house + 12) % 12) + 1
      lagna_afflicted == mars_house \in kuja_dosha_houses
      chandra_afflicted == mars_from_moon \in kuja_dosha_houses
      shukra_afflicted == mars_from_venus \in kuja_dosha_houses
      cancellation == check_kuja_cancellation(mars_lon, planets, d9_planets, moon_lon, sun_lon)
  IN  [Lagna |-> AfflictedOrClean(lagna_afflicted),
       Chandra |-> AfflictedOrClean(chandra_afflicted),
       Shukra |-> AfflictedOrClean(shukra_afflicted),
       Total |-> IF lagna_afflicted \/ chandra_afflicted \/ shukra_afflicted
                 THEN (IF cancellation.cancelled THEN cancellation.reason ELSE "Afflicted")
                 ELSE "Not Afflicted"]

rahu_dosha_status(rahu_house, moon_house) ==
  LET rahu_from_moon == ((rahu_house - moon_house + 12) % 12) + 1
      lagna == AfflictedOrClean(rahu_house \in rahu_dosha_houses)
      chandra == AfflictedOrClean(rahu_from_moon \in rahu_dosha_houses)
  IN  [Lagna |-> lagna,
       Chandra |-> chandra,
       Total |-> IF "Afflicted" \in {lagna, chandra, "Not Afflicted"}
                 THEN "Afflicted" ELSE "Not Afflicted"]

DoshaInit ==
  /\ fn = "check_doshas_from_points"
  /\ pc = "call"
  /\ \E houses \in [mars_house : HouseNumbers, rahu_house : DoshaRahuHouses,
                     moon_house : HouseNumbers, venus_house : HouseNumbers],
        bodies \in DoshaBodies :
       args = houses @@ bodies
  /\ loc = NoLocals
  /\ ret = None

Call_check_doshas_from_points ==
  /\ fn = "check_doshas_from_points" /\ pc = "call"
  /\ ret' = [mars_dosha_status |->
               mars_dosha_status(args.mars_house, args.moon_house, args.venus_house,
                                 args.mars_lon, args.planets, args.d9_planets,
                                 args.moon_lon, args.sun_lon),
             rahu_dosha_status |-> rahu_dosha_status(args.rahu_house, args.moon_house)]
  /\ pc' = "done"
  /\ UNCHANGED <<fn, args, loc>>

DoshaNext == Call_check_doshas_from_points

SpecDoshas == DoshaInit /\ [][DoshaNext]_vars

DoshaDone == fn = "check_doshas_from_points" /\ pc = "done"

\* The house of a body counted from a reference house: the k of 1..12 with
\* the body k - 1 houses after the reference, going round the 12 houses
RelativeHouse(body_house, reference_house) ==
  CHOOSE k \in 1..12 : (reference_house + k - 1 - body_house) % 12 = 0

\* Mars's house relative to the Ascendant, the Moon and Venus
MarsAxes ==
  {args.mars_house, RelativeHouse(args.mars_house, args.moon_house),
   RelativeHouse(args.mars_house, args.venus_house)}

\* C22: the Mars dosha Total of check_doshas_from_points is 'Not Afflicted'
\* exactly when Mars's house relative to the Ascendant, the Moon and Venus is
\* in none of {2, 4, 7, 8, 12}; otherwise it is the reason of the cancellation
\* rule that matches, and 'Afflicted' when none matches.
C22_MarsDoshaTotal ==
  DoshaDone =>
    LET total == ret.mars_dosha_status.Total
        cancellation == check_kuja_cancellation(args.mars_lon, args.planets, args.d9_planets,
                                                args.moon_lon, args.sun_lon)
    IN  /\ total = "Not Afflicted" <=> MarsAxes \cap {2, 4, 7, 8, 12} = {}
        /\ (total # "Not Afflicted" /\ cancellation.cancelled) => total = cancellation.reason
        /\ (total # "Not Afflicted" /\ ~cancellation.cancelled) => total = "Afflicted"

\* Mars in the 1st house, clean from the Ascendant and the Moon and 8th from
\* Venus, conjunct a benefic Moon: the Total is the cancellation reason
C22_Witness ==
  /\ DoshaDone
  /\ args.mars_house = 1 /\ args.moon_house = 1 /\ args.venus_house = 6
  /\ ret.mars_dosha_status.Lagna = "Clean" /\ ret.mars_dosha_status.Chandra = "Clean"
  /\ ret.mars_dosha_status.Shukra = "Afflicted"
  /\ ret.mars_dosha_status.Total = "Cancelled (Conj. Moon D1)"

---------------------------------------------------------------------------
\* Sub-lord of a longitude

\* the period-years accumulated by the first n lords of the cycle that starts
\* at the lord with index star_index
RECURSIVE AccumulatedYears(_, _)
AccumulatedYears(star_index, n) ==
  IF n = 0 THEN 0
  ELSE AccumulatedYears(star_index, n - 1) + DASHA_PERIODS[DASHAS_LORDS[((star_index + n - 1) % 9) + 1]]

\* arc-minutes of the longitude of the call inside its nakshatra
ArcInNakshatra == args.lon % NAKSHATRA_SPAN

\* the walks of 1..9 lords whose accumulated years exceed fraction * 120,
\* the fraction being ArcInNakshatra / NAKSHATRA_SPAN
ExceedingWalks ==
  {n \in 1..9 : AccumulatedYears(LordIndex(ret.star_lord), n) * NAKSHATRA_SPAN > ArcInNakshatra * 120}

---------------------------------------------------------------------------
\* Significator engine: get_significators

\* the houses i + 1 whose cusp all_cusps[i] lies in a sign ruled by lord
CuspHouses(all_cusps, lord) ==
  {i + 1 : i \in {j \in 0..11 : SIGN_LORD_MAP(TruncDiv(all_cusps[j + 1], SignSpan)) = lord}}

\* the early exit that returns [] when the node of the star-lord is missing
get_significators_EmptyWithoutNode(planet_lon, all_cusps, chart_planets) ==
  LET star_lord_name == get_star_sub_lord(planet_lon).star_lord
      planet_owner == SIGN_LORD_MAP(TruncDiv(planet_lon, SignSpan))
      star_lord_lookup ==
        IF star_lord_name \in {"Rahu", "Ketu"}
        THEN SIGN_LORD_MAP(TruncDiv(chart_planets[star_lord_name], SignSpan))
        ELSE star_lord_name
      star_lord_house == find_house_index(chart_planets[star_lord_lookup], all_cusps)
      s1_s2_significators ==
        IF star_lord_lookup # None /\ star_lord_lookup \in DOMAIN chart_planets
        THEN (IF star_lord_house > 0 THEN {star_lord_house} ELSE {})
             \cup CuspHouses(all_cusps, star_lord_lookup)
        ELSE {}
      planet_house == find_house_index(planet_lon, all_cusps)
      s3_s4_significators ==
        (IF planet_house > 0 THEN {planet_house} ELSE {}) \cup CuspHouses(all_cusps, planet_owner)
  IN  IF star_lord_name \in {"Rahu", "Ketu"} /\ star_lord_name \notin DOMAIN chart_planets
      THEN <<>>
      ELSE SortedSeq(s1_s2_significators) \o SortedSeq(s3_s4_significators)

\* the star-lord looked up under its own name, a node included
get_significators_NodeUnresolved(planet_lon, all_cusps, chart_planets) ==
  LET star_lord_lookup == get_star_sub_lord(planet_lon).star_lord
      planet_owner == SIGN_LORD_MAP(TruncDiv(planet_lon, SignSpan))
      star_lord_house == find_house_index(chart_planets[star_lord_lookup], all_cusps)
      s1_s2_significators ==
        IF star_lord_lookup \in DOMAIN chart_planets
        THEN (IF star_lord_house > 0 THEN {star_lord_house} ELSE {})
             \cup CuspHouses(all_cusps, star_lord_lookup)
        ELSE {}
      planet_house == find_house_index(planet_lon, all_cusps)
      s3_s4_significators ==
        (IF planet_house > 0 THEN {planet_house} ELSE {}) \cup CuspHouses(all_cusps, planet_owner)
  IN  SortedSeq(s1_s2_significators) \o SortedSeq(s3_s4_significators)

get_significators(planet_lon, all_cusps, chart_planets) ==
  LET star_lord_name == get_star_sub_lord(planet_lon).star_lord
      planet_owner == SIGN_LORD_MAP(TruncDiv(planet_lon, SignSpan))
      star_lord_lookup ==
        IF star_lord_name \in {"Rahu", "Ketu"}
        THEN (IF star_lord_name \in DOMAIN chart_planets
              THEN SIGN_LORD_MAP(TruncDiv(chart_planets[star_lord_name], SignSpan))
              ELSE None)
        ELSE star_lord_name
      star_lord_house == find_house_index(chart_planets[star_lord_lookup], all_cusps)
      s1_s2_significators ==
        IF star_lord_lookup # None /\ star_lord_lookup \in DOMAIN chart_planets
        THEN (IF star_lord_house > 0 THEN {star_lord_house} ELSE {})
             \cup CuspHouses(all_cusps, star_lord_lookup)
        ELSE {}
      planet_house == find_house_index(planet_lon, all_cusps)
      s3_s4_significators ==
        (IF planet_house > 0 THEN {planet_house} ELSE {}) \cup CuspHouses(all_cusps, planet_owner)
  IN  SortedSeq(s1_s2_significators) \o SortedSeq(s3_s4_significators)

\* longitudes of the planet: two or three in every nakshatra
SigPlanetLons == {Deg(5) * m : m \in 0..71}

\* cusp lists of equal and of unequal houses, the wrap past 360 at the front,
\* in the middle and at the end of the list
SigCusps ==
  {[i \in 1..12 |-> (Deg(30) * (i - 1) + off) % FullCircle] : off \in {Deg(0), Deg(17), Deg(200)}}
  \cup {[i \in 1..12 |-> (Deg(20) * (i - 1) + Deg(25) * (i \div 3) + Deg(100)) % FullCircle]}

\* the seven planets of two charts, and the nodes a chart map may hold
SigPlanets ==
  {[Sun |-> Deg(12), Moon |-> Deg(95), Mercury |-> Deg(28), Venus |-> Deg(340),
    Mars |-> Deg(215), Jupiter |-> Deg(130), Saturn |-> Deg(301)],
   [Sun |-> Deg(250), Moon |-> Deg(3), Mercury |-> Deg(262), Venus |-> Deg(207),
    Mars |-> Deg(77), Jupiter |-> Deg(185), Saturn |-> Deg(44)]}
SigNodes ==
  {EmptyDict, [Rahu |-> Deg(47), Ketu |-> Deg(227)], [Rahu |-> Deg(289), Ketu |-> Deg(109)]}

SignificatorInit ==
  /\ fn = "get_significators"
  /\ pc = "call"
  /\ \E bodies \in SigPlanets, nodes \in SigNodes :
       args \in [planet_lon : SigPlanetLons, all_cusps : SigCusps, chart_planets : {bodies @@ nodes}]
  /\ loc = NoLocals
  /\ ret = None

Call_get_significators ==
  /\ fn = "get_significators" /\ pc = "call"
  /\ ret' = get_significators(args.planet_lon, args.all_cusps, args.chart_planets)
  /\ pc' = "done"
  /\ UNCHANGED <<fn, args, loc>>

SignificatorNext == Call_get_significators

SpecSignificators == SignificatorInit /\ [][SignificatorNext]_vars

SignificatorsDone == fn = "get_significators" /\ pc = "done"

\* the star-lord of the planet of the call: the lord of its nakshatra
SigStarLord == NAKSHATRA_LORDS((args.planet_lon \div NAKSHATRA_SPAN) % 27)

\* the lord of the sign that holds a longitude of [0,360)
LordOfSignAt(lon) == SIGN_LORD_MAP(lon \div SignSpan)

\* the house whose interval holds a longitude
HouseHolding(lon) == CHOOSE i \in 1..12 : InHouseInterval(i, lon, args.all_cusps)

\* the houses an owner signifies: the house it occupies and the houses whose
\* cusp sign it rules
HousesOf(owner_lon, owner) ==
  {HouseHolding(owner_lon)} \cup {i \in 1..12 : LordOfSignAt(args.all_cusps[i]) = owner}

NodeMissing == SigStarLord \in {"Rahu", "Ketu"} /\ SigStarLord \notin DOMAIN args.chart_planets

\* the effective star-lord owner: the star-lord, or for a node the lord of
\* the sign the node occupies
EffectiveOwner ==
  IF SigStarLord \in {"Rahu", "Ketu"}
  THEN LordOfSignAt(args.chart_planets[SigStarLord])
  ELSE SigStarLord

LevelA == IF NodeMissing THEN {} ELSE HousesOf(args.chart_planets[EffectiveOwner], EffectiveOwner)
LevelB == HousesOf(args.planet_lon, LordOfSignAt(args.planet_lon))

\* a sequence lists exactly the set S in increasing order
IsSortedListOf(seq, S) ==
  /\ Len(seq) = Cardinality(S)
  /\ {seq[i] : i \in 1..Len(seq)} = S
  /\ \A i \in 1..(Len(seq) - 1) : seq[i] < seq[i + 1]

\* C24: get_significators returns sorted(A) followed by sorted(B), A being
\* the house occupied by the effective star-lord owner plus every house whose
\* cusp sign that owner rules (a node star-lord replaced by the lord of the
\* sign the node occupies), B the planet's own house plus every house whose
\* cusp sign the lord of the planet's sign rules; every entry is in 1..12.
C24_LevelsAB ==
  SignificatorsDone =>
    /\ Len(ret) = Cardinality(LevelA) + Cardinality(LevelB)
    /\ IsSortedListOf(SubSeq(ret, 1, Cardinality(LevelA)), LevelA)
    /\ IsSortedListOf(SubSeq(ret, Cardinality(LevelA) + 1, Len(ret)), LevelB)
    /\ \A i \in 1..Len(ret) : ret[i] \in 1..12

\* a planet in a nakshatra of Rahu, Rahu in Taurus: level A is that of Venus,
\* and its largest house is above the smallest house of level B
C24_Witness ==
  /\ SignificatorsDone
  /\ SigStarLord = "Rahu" /\ ~NodeMissing /\ EffectiveOwner = "Venus"
  /\ Cardinality(LevelA) >= 2 /\ Cardinality(LevelB) >= 2
  /\ ret[Cardinality(LevelA)] > ret[Cardinality(LevelA) + 1]

\* C25 as stated: when the star-lord of the planet is Rahu or Ketu and the
\* chart map has no longitude for that node, get_significators returns an
\* empty list.
C25_NodeAbsentEmpty_AsStated ==
  (SignificatorsDone /\ NodeMissing) => ret = <<>>

\* C25 amended: when the star-lord of the planet is Rahu or Ketu and the
\* chart map has no longitude for that node, the call returns without raising,
\* level A is empty and the list is sorted(B): the planet's own house and the
\* houses whose cusp sign the lord of the planet's sign rules, never empty.
C25_NodeAbsentLevelB ==
  (SignificatorsDone /\ NodeMissing) =>
    /\ IsSortedListOf(ret, LevelB)
    /\ ret # <<>>

\* a planet at 10 degrees, in Ashwini of Ketu, in a chart map without nodes
C25_Witness ==
  /\ SignificatorsDone /\ NodeMissing
  /\ args.planet_lon = Deg(10) /\ SigStarLord = "Ketu"
  /\ Len(ret) >= 2

---------------------------------------------------------------------------
\* find_house_index on cusp lists of any shape

\* every list of 12 cusps over three values, in any order and with repeats
AnyCuspValues == {Deg(60), Deg(180), Deg(300)}
\* longitudes below, on, between and above the cusp values
AnyCuspLons == {Deg(0), Deg(60), Deg(120), Deg(180), Deg(240), Deg(330)}

AnyCuspsInit ==
  /\ fn = "house"
  /\ pc = "call"
  /\ args \in [lon : AnyCuspLons, cusps : [1..12 -> AnyCuspValues]]
  /\ loc = NoLocals
  /\ ret = None

SpecHouseAnyCusps == AnyCuspsInit /\ [][HouseNext]_vars

\* C26: find_house_index never returns the sentinel 0: for every list of 12
\* cusp values of [0,360), well-formed or not, and every longitude of [0,360),
\* at least one house interval matches.
C26_NoSentinel ==
  pc = "house_done" =>
    /\ ret.house \in 1..12
    /\ InHouseInterval(ret.house, args.lon, args.cusps)

\* a cusp list that goes down six times round the circle, with the
\* longitude in none of the first two intervals
C26_Witness ==
  /\ pc = "house_done"
  /\ Cardinality({i \in 1..12 : args.cusps[i] >= args.cusps[(i % 12) + 1]}) >= 6
  /\ ~InHouseInterval(1, args.lon, args.cusps) /\ ~InHouseInterval(2, args.lon, args.cusps)
  /\ ret.house = 3

---------------------------------------------------------------------------
\* The dasha at birth and the sub-lord of the Moon

---------------------------------------------------------------------------
\* The Mahadasha lord in the report

\* generate_compatibility_report as a function of the two charts and the
\* three match scores: the statuses of the Mahadasha lords shown in the dasha
\* table, the dasha verdict and the final verdict
report_outcome(chart1, chart2, d1_score, d9_score, d50_score) ==
  LET supplementary_results == calculate_supplementary_factors(chart1, chart2)
      guna_score == calculate_ashtakoota(chart1.moon_lon, chart2.moon_lon) \div 2
      verdict == dasha_verdict(chart1, chart2, supplementary_results)
      supp_results == [supplementary_results EXCEPT !.Dasha_Synchronization = verdict]
      promise_status == kp_promise_status(chart1.marriage_promise, chart2.marriage_promise)
      dasha_status == kp_dasha_status(verdict)
      fold_status == fold_summary_status(good_factors(supp_results, d1_score, d9_score, d50_score))
  IN  [c1_md_status |-> check_dasha_marriage_potential(lord_sigs(chart1, chart1.md_lord)),
       c2_md_status |-> check_dasha_marriage_potential(lord_sigs(chart2, chart2.md_lord)),
       dasha_verdict |-> verdict,
       final_verdict_text |->
         final_verdict_text(promise_status, dasha_status, guna_score, fold_status)]

\* significator lists of the Mahadasha lord: none, marriage, denial, both
MdSigSets == {{}, {7}, {6}, {6, 7}}

\* charts that carry the significators of all three dasha lords
MdCharts ==
  {[name |-> n.name,
    moon_lon |-> n.moon_lon,
    d9_lagna_lord |-> n.d9_lagna_lord,
    pitra_dosha_present |-> n.pitra_dosha_present,
    jupiter_significators |-> n.jupiter_significators,
    venus_significators |-> n.venus_significators,
    saturn_significators |-> n.saturn_significators,
    mars_dosha_status |-> [Total |-> total],
    csl_significators |-> {11},
    marriage_promise |-> promise_verdict({11}),
    planet_significators |-> sigs,
    md_lord |-> "Mercury",
    ad_lord |-> "Moon",
    pd_lord |-> "Sun"] :
   n \in Natives, total \in {"Not Afflicted", "Afflicted"},
   sigs \in [Mercury : MdSigSets, Moon : AdSigSets, Sun : {{7}, {}}]}

ReportMdInit ==
  /\ fn = "generate_compatibility_report"
  /\ pc = "call"
  /\ args \in [chart1 : MdCharts \cup {EmptyDict}, chart2 : MdCharts \cup {EmptyDict}]
  /\ loc = NoLocals
  /\ ret = None

SpecReportMd == ReportMdInit /\ [][ReportNext]_vars

\* a chart with the significator list of its Mahadasha lord replaced
WithMdSigs(chart, sigs) ==
  [chart EXCEPT !.planet_significators = [@ EXCEPT ![chart.md_lord] = sigs]]

\* C28: the significators of the Mahadasha lord never influence the outcome:
\* two report computations that differ only in the Mahadasha lords'
\* significator lists give the same dasha verdict and the same final verdict.
C28_MahadashaNoInfluence ==
  ReportDone =>
    /\ LET same == report_outcome(args.chart1, args.chart2,
                                  loc.d1_score, loc.d9_score, loc.d50_score)
       IN  same.dasha_verdict = loc.dasha_verdict
           /\ same.final_verdict_text = ret.final_verdict_text
    /\ \A s1 \in MdSigSets, s2 \in MdSigSets :
         LET other == report_outcome(WithMdSigs(args.chart1, s1), WithMdSigs(args.chart2, s2),
                                     loc.d1_score, loc.d9_score, loc.d50_score)
         IN  other.dasha_verdict = loc.dasha_verdict
             /\ other.final_verdict_text = ret.final_verdict_text

\* both Mahadasha lords are in a denial period and no Antardasha or
\* Pratyantardasha lord is; with marriage significators in their place the
\* Mahadasha statuses shown change and the verdicts do not
C28_Witness ==
  /\ ReportDone
  /\ lord_sigs(args.chart1, "Mercury") = {6} /\ lord_sigs(args.chart2, "Mercury") = {6}
  /\ ~StartsWith(loc.dasha_verdict, "DENIAL")
  /\ LET here == report_outcome(args.chart1, args.chart2,
                                loc.d1_score, loc.d9_score, loc.d50_score)
         other == report_outcome(WithMdSigs(args.chart1, {7}), WithMdSigs(args.chart2, {7}),
                                 loc.d1_score, loc.d9_score, loc.d50_score)
     IN  /\ here.c1_md_status = "DENIAL_PERIOD" /\ other.c1_md_status = "STRONG_PROMISE"
         /\ other.dasha_verdict = loc.dasha_verdict
         /\ other.final_verdict_text = ret.final_verdict_text

---------------------------------------------------------------------------
\* The dasha status of the final verdict

\* C29: in the final-verdict step kp_dasha_status is always 'DENIAL', 'Strong'
\* or 'Good' and never 'Mixed': a MIXED or WEAK/NEUTRAL dasha verdict is
\* reported as 'Good', yet it still prevents 'PROCEED (Strongly Recommended)'.
C29_DashaStatusNeverMixed ==
  ReportDone =>
    /\ loc.kp_dasha_status \in {"DENIAL", "Strong", "Good"}
    /\ (StartsWith(loc.dasha_verdict, "MIXED") \/ StartsWith(loc.dasha_verdict, "WEAK/NEUTRAL"))
         => /\ loc.kp_dasha_status = "Good"
            /\ ret.final_verdict_text # "PROCEED (Strongly Recommended)"

\* a pair with two strong promises, nine favorable factors and a MIXED dasha
\* verdict: the status is Good and the pair proceeds with caution
C29_Witness ==
  /\ ReportDone
  /\ StartsWith(loc.dasha_verdict, "MIXED")
  /\ loc.kp_dasha_status = "Good"
  /\ loc.kp_promise_status = "Strong" /\ loc.fold_summary_status = "Strong"
  /\ ret.final_verdict_text = "PROCEED (With Caution)"

---------------------------------------------------------------------------
\* The Tara factor

\* the count from one nakshatra to another, both included, reduced to 0..8
TaraCount(from, to) == (((to - from + 27) % 27) + 1) % 9

\* the directions, first to second and second to first, whose count is one
\* of the excluded 3, 5, 7
ExcludedDirections ==
  {d \in {"forward", "backward"} :
     (IF d = "forward"
      THEN TaraCount(loc.nak_index_c1, loc.nak_index_c2)
      ELSE TaraCount(loc.nak_index_c2, loc.nak_index_c1)) \in {3, 5, 7}}

\* C30: in calculate_ashtakoota the Tara factor contributes either 1.5 or 3
\* and never 0: for every pair of nakshatra indices at most one of the two
\* directional distance checks falls in the excluded set {3, 5, 7}.
C30_TaraNeverZero ==
  AshtakootaDone =>
    /\ Cardinality(ExcludedDirections) <= 1
    /\ loc.t_score_half_points = (IF ExcludedDirections = {} THEN 6 ELSE 3)

\* the second Moon two nakshatras after the first, past the end of the
\* circle: the forward count is 3, the backward count 26, that is 8 modulo 9,
\* and the factor is 1.5
C30_Witness ==
  /\ AshtakootaDone
  /\ loc.nak_index_c1 = 25 /\ loc.nak_index_c2 = 0
  /\ ExcludedDirections = {"forward"}
  /\ loc.t_score_half_points = 3

=============================================================================
